---- MODULE Spec2Model ----
(***************************************************************************)
(* smon: a terminal dashboard for a Slurm cluster.                         *)
(*                                                                         *)
(* The module models the snapshot parsers of slurm_backend.py, the filter  *)
(* engine and the refresh engine (SlurmDashboard.update_data) of           *)
(* smon_dashboard.py, and the modal dialogs of smon_screens.py.            *)
(* Texts are TLA+ strings and are parsed character by character, the way   *)
(* the Python code splits and matches them.                                *)
(*                                                                         *)
(* The Textual framework is not part of the repository.  The model takes   *)
(* from it that handlers run one at a time, each to completion; that       *)
(* DataTable.clear() empties the rows and returns the cursor and the       *)
(* scroll offset to 0; that add_row appends a row; that an assigned scroll *)
(* offset is kept; that the watcher of show_compact runs once after        *)
(* on_mount; that the keys go to a modal screen while one is on top; and   *)
(* that an exception which leaves a handler ends the application.          *)
(***************************************************************************)
EXTENDS Integers, Sequences, FiniteSets, TLC

(***************************************************************************)
(* Bounds of the model.                                                    *)
(***************************************************************************)
MaxNodes == 3

MaxJobs == 3

MaxScroll == 1

(***************************************************************************)
(* Python string primitives.                                               *)
(***************************************************************************)
Ch(s, i) == SubSeq(s, i, i)

IsDigit(c) == c \in {"0", "1", "2", "3", "4", "5", "6", "7", "8", "9"}

IsSpace(c) == c \in {" ", "\t", "\n", "\r"}

Min(a, b) == IF a < b THEN a ELSE b

Max(a, b) == IF a > b THEN a ELSE b

\* s[i:] of Python, with the 1-based index i of the first character kept.
Tail_(s, i) == SubSeq(s, i, Len(s))

\* s.startswith(p) at the 1-based position i.
StartsAt(s, i, p) == /\ i + Len(p) - 1 <= Len(s)
                     /\ SubSeq(s, i, i + Len(p) - 1) = p

\* The least element of S, d for the empty set.
FirstOr(S, d) == IF S = {} THEN d ELSE CHOOSE j \in S : \A m \in S : j <= m

\* The least element of a set of positions, 0 for the empty set.
First(S) == FirstOr(S, 0)

\* s.find(p, i): the least position >= i where p occurs, 0 when there is none.
Find(s, p, i) == First({j \in i..(Len(s) - Len(p) + 1) : StartsAt(s, j, p)})

\* "p in s"
Contains(s, p) == Find(s, p, 1) # 0

\* not s.strip()
IsBlank(s) == \A i \in 1..Len(s) : IsSpace(Ch(s, i))

\* s.lstrip()
StripLeft(s) ==
  Tail_(s, FirstOr({j \in 1..Len(s) : ~IsSpace(Ch(s, j))}, Len(s) + 1))

\* The greatest element of a set of positions, 0 for the empty set.
Last(S) == IF S = {} THEN 0 ELSE CHOOSE j \in S : \A m \in S : m <= j

\* s.rstrip()
StripRight(s) == SubSeq(s, 1, Last({j \in 1..Len(s) : ~IsSpace(Ch(s, j))}))

\* s.strip()
Strip(s) == StripRight(StripLeft(s))

\* s.split(sep) for a one-character separator: empty pieces are kept.
RECURSIVE SplitAt(_, _, _)
SplitAt(s, sep, p) ==
  IF p = 0 THEN <<s>>
  ELSE <<SubSeq(s, 1, p - 1)>>
       \o SplitAt(Tail_(s, p + 1), sep, Find(Tail_(s, p + 1), sep, 1))

SplitOn(s, sep) == SplitAt(s, sep, Find(s, sep, 1))

\* The end of the run of non-blank characters that starts at i.
WordEnd(s, i) ==
  FirstOr({j \in (i + 1)..Len(s) : IsSpace(Ch(s, j))}, Len(s) + 1) - 1

\* s.split(): pieces between runs of whitespace, no empty piece.
RECURSIVE Words(_, _)
\* t has no leading blank; e is the end of its first word
Words(t, e) ==
  IF Len(t) = 0 THEN <<>>
  ELSE <<SubSeq(t, 1, e)>>
       \o Words(StripLeft(Tail_(t, e + 1)),
                WordEnd(StripLeft(Tail_(t, e + 1)), 1))

SplitWs(s) == Words(StripLeft(s), WordEnd(StripLeft(s), 1))

\* The end of the run of digits that starts at i (s[i] is a digit).
DigitsEnd(s, i) ==
  FirstOr({j \in (i + 1)..Len(s) : ~IsDigit(Ch(s, j))}, Len(s) + 1) - 1

DigitVal(c) == CHOOSE d \in 0..9 : Ch("0123456789", d + 1) = c

RECURSIVE NatOf(_)
NatOf(s) ==
  IF Len(s) = 0 THEN 0
  ELSE 10 * NatOf(SubSeq(s, 1, Len(s) - 1)) + DigitVal(Ch(s, Len(s)))

\* the number written by the run of digits that starts at i
DigitsAt(s, i) == NatOf(SubSeq(s, i, DigitsEnd(s, i)))

AllDigits(s) == Len(s) > 0 /\ \A i \in 1..Len(s) : IsDigit(Ch(s, i))

\* int(s) accepts an optional sign followed by decimal digits, with blanks
\* around; anything else raises ValueError.
SignedOk(t) ==
  AllDigits(IF Len(t) > 0 /\ Ch(t, 1) \in {"+", "-"} THEN Tail_(t, 2) ELSE t)

IntOk(s) == SignedOk(Strip(s))

SignedOf(t) ==
  (IF Ch(t, 1) = "-" THEN -1 ELSE 1)
  * NatOf(IF Ch(t, 1) \in {"+", "-"} THEN Tail_(t, 2) ELSE t)

IntOf(s) == SignedOf(Strip(s))

RECURSIVE NatStr(_)
NatStr(n) ==
  IF n < 10 THEN Ch("0123456789", n + 1)
  ELSE NatStr(n \div 10) \o Ch("0123456789", (n % 10) + 1)

\* str(n)
IntStr(n) == IF n < 0 THEN "-" \o NatStr(0 - n) ELSE NatStr(n)

Upper == "ABCDEFGHIJKLMNOPQRSTUVWXYZ"

Lower == "abcdefghijklmnopqrstuvwxyz"

FoldCh(c) ==
  IF Contains(Upper, c) THEN Ch(Lower, Find(Upper, c, 1)) ELSE c

\* s.casefold() on ASCII text.
RECURSIVE Casefold(_)
Casefold(s) ==
  IF Len(s) = 0 THEN ""
  ELSE FoldCh(Ch(s, 1)) \o Casefold(Tail_(s, 2))

(***************************************************************************)
(* The command executor (slurm_backend.run_slurm_command).  An execution   *)
(* of a command line is a record: status "ok" (exit 0), "fail" (missing    *)
(* binary or non-zero exit; out holds what the shell printed) or "raise"   *)
(* (the output cannot be decoded, subprocess raises).                      *)
(***************************************************************************)
\* subprocess.getoutput: stdout and stderr together, one trailing newline
\* removed, whatever the exit status.
getoutput(res) ==
  IF Len(res.out) > 0 /\ Ch(res.out, Len(res.out)) = "\n"
  THEN SubSeq(res.out, 1, Len(res.out) - 1)
  ELSE res.out

run_slurm_command(res) ==
  [raised |-> res.status = "raise", text |-> getoutput(res)]

(***************************************************************************)
(* slurm_backend.get_cluster_stats                                         *)
(***************************************************************************)
offline_states == <<"DOWN", "DRAIN", "FAIL", "MAINT", "NO_RESPOND">>

\* [t.split("=", 1) for t in tokens if "=" in t]
\* t.split("=", 1) for a token whose first '=' is at p
SplitFirst(t, p) == [k |-> SubSeq(t, 1, p - 1), v |-> Tail_(t, p + 1)]

RECURSIVE TokenPairs(_)
TokenPairs(tokens) ==
  IF tokens = <<>> THEN <<>>
  ELSE IF ~Contains(Head(tokens), "=") THEN TokenPairs(Tail(tokens))
  ELSE <<SplitFirst(Head(tokens), Find(Head(tokens), "=", 1))>>
       \o TokenPairs(Tail(tokens))

\* data.get(key): the dict keeps the last value given to a key.
HasKey(data, key) == \E i \in 1..Len(data) : data[i].k = key

DictGet(data, key) == data[Last({j \in 1..Len(data) : data[j].k = key})].v

\* Faulty variant of GetStr: a missing key gives the empty string.
GetStr_empty(data, key, default) ==
  IF HasKey(data, key) THEN DictGet(data, key) ELSE ""

\* data.get(key, default) for a string default.
GetStr(data, key, default) ==
  IF HasKey(data, key) THEN DictGet(data, key) ELSE default

\* int(data.get(key, default)) for an integer default.
GetIntOk(data, key) == HasKey(data, key) => IntOk(DictGet(data, key))

\* Faulty variant of GetInt: the token of the key is not read.
GetInt_default(data, key, default) == default

GetInt(data, key, default) ==
  IF HasKey(data, key) THEN IntOf(DictGet(data, key)) ELSE default

\* re.findall(r":(\d+)", s): position of the first ':' followed by a digit.
ColonDigits(s, i) ==
  First({j \in i..(Len(s) - 1) : Ch(s, j) = ":" /\ IsDigit(Ch(s, j + 1))})

GresTotal(gres_str) ==
  IF Contains(gres_str, "gpu") /\ ColonDigits(gres_str, 1) # 0
  THEN DigitsAt(gres_str, ColonDigits(gres_str, 1) + 1)
  ELSE 0

\* re.search(r"gres/gpu[^=]*=(\d+)", s) tried from position i: [^=]* can only
\* end at the first '=' after the literal, which a digit must follow.
\* the literal is at p, e is the first '=' after it (0 when there is none)
GresGpuAt(s, p, e) ==
  /\ StartsAt(s, p, "gres/gpu")
  /\ e # 0
  /\ e < Len(s)
  /\ IsDigit(Ch(s, e + 1))

\* the position of the first digit of the group of the leftmost match, 0
\* without a match
GresGpuMatch(s) ==
  First({Find(s, "=", p + 8) + 1 :
           p \in {q \in 1..Len(s) : GresGpuAt(s, q, Find(s, "=", q + 8))
                    /\ \A m \in 1..(q - 1) :
                         ~GresGpuAt(s, m, Find(s, "=", m + 8))}})

\* Faulty variant of AllocGpu: only the form gres/gpu=<digits> is read.
AllocGpu_plain(alloc_tres) ==
  IF Contains(alloc_tres, "gres/gpu=")
       /\ Find(alloc_tres, "gres/gpu=", 1) + 9 <= Len(alloc_tres)
       /\ IsDigit(Ch(alloc_tres, Find(alloc_tres, "gres/gpu=", 1) + 9))
  THEN DigitsAt(alloc_tres, Find(alloc_tres, "gres/gpu=", 1) + 9)
  ELSE 0

AllocGpu(alloc_tres) ==
  IF Contains(alloc_tres, "gres/gpu") /\ GresGpuMatch(alloc_tres) # 0
  THEN DigitsAt(alloc_tres, GresGpuMatch(alloc_tres))
  ELSE 0

\* One iteration of the loop over the lines of the node listing.
\* the four int() calls of a line succeed
NodeDataOk(data) ==
  \A key \in {"CPUAlloc", "CPUTot", "AllocMem", "RealMemory"} :
    GetIntOk(data, key)

NodeLineOk(line) == NodeDataOk(TokenPairs(SplitWs(line)))

IntDefault(key) == IF key = "RealMemory" THEN 1 ELSE 0

StrDefault(key) ==
  IF key \in {"NodeName", "State"} THEN "Unknown" ELSE ""

\* the record built from the dict of a line
NodeOfData(ints, strs) ==
  [name  |-> strs["NodeName"],
   state |-> strs["State"],
   c_u   |-> ints["CPUAlloc"],
   c_t   |-> ints["CPUTot"],
   m_u   |-> ints["AllocMem"],
   m_t   |-> ints["RealMemory"],
   g_u   |-> AllocGpu(strs["AllocTRES"]),
   g_t   |-> GresTotal(strs["Gres"])]

NodeOfDict(data) ==
  NodeOfData(
    [key \in {"CPUAlloc", "CPUTot", "AllocMem", "RealMemory"} |->
       GetInt(data, key, IntDefault(key))],
    [key \in {"NodeName", "State", "AllocTRES", "Gres"} |->
       GetStr(data, key, StrDefault(key))])

NodeOfLine(line) == NodeOfDict(TokenPairs(SplitWs(line)))

\* Faulty variant of IsOffline: the state is compared as a whole.
IsOffline_exact(state) ==
  \E i \in 1..Len(offline_states) : state = offline_states[i]

IsOffline(state) ==
  \E i \in 1..Len(offline_states) : Contains(state, offline_states[i])

RECURSIVE SumField(_, _, _)
\* the running total of a field over the nodes; online: only over the nodes
\* that are not offline
SumField(nodes, field, online) ==
  IF nodes = <<>> THEN 0
  ELSE (IF online /\ IsOffline(Head(nodes).state) THEN 0
        ELSE Head(nodes)[field])
       + SumField(Tail(nodes), field, online)

RECURSIVE NodeLoop(_, _)
\* The for loop of get_cluster_stats: the records of the non-blank lines, in
\* order; a ValueError of int() leaves the loop and the function.
NodeLoop(lines, nodes) ==
  IF lines = <<>> THEN [raised |-> FALSE, nodes |-> nodes]
  ELSE IF IsBlank(Head(lines)) THEN NodeLoop(Tail(lines), nodes)
  ELSE IF ~NodeLineOk(Head(lines)) THEN [raised |-> TRUE, nodes |-> <<>>]
  ELSE NodeLoop(Tail(lines), Append(nodes, NodeOfLine(Head(lines))))

\* what get_cluster_stats returns after its loop
StatsOfLoop(loop) ==
  [raised |-> loop.raised,
   nodes |-> loop.nodes,
   theo |-> <<SumField(loop.nodes, "c_u", FALSE),
              SumField(loop.nodes, "c_t", FALSE),
              SumField(loop.nodes, "g_u", FALSE),
              SumField(loop.nodes, "g_t", FALSE)>>,
   real |-> <<SumField(loop.nodes, "c_t", TRUE),
              SumField(loop.nodes, "g_t", TRUE)>>]

get_cluster_stats(res) ==
  IF run_slurm_command(res).raised
  THEN [raised |-> FALSE, nodes |-> <<>>,
        theo |-> <<0, 0, 0, 0>>, real |-> <<0, 0>>]
  ELSE StatsOfLoop(NodeLoop(SplitOn(run_slurm_command(res).text, "\n"), <<>>))

(***************************************************************************)
(* slurm_backend.get_job_stats                                             *)
(***************************************************************************)
MinJobFields == 17

\* One alternative of (?:gpu_total|total_gpu|gres/gpu)[:=](\d+) matches at j.
TotalHit(s, j, lit) ==
  /\ StartsAt(s, j, lit)
  /\ j + Len(lit) < Len(s)
  /\ Ch(s, j + Len(lit)) \in {":", "="}
  /\ IsDigit(Ch(s, j + Len(lit) + 1))

TotalLiterals == {"gpu_total", "total_gpu", "gres/gpu"}

\* where the leftmost match starts, 0 without a match
TotalStart(s) ==
  First({j \in 1..Len(s) : \E lit \in TotalLiterals : TotalHit(s, j, lit)})

\* the first digit of the group of the match that starts at p; no two of the
\* literals start at one position
TotalGroup(s, p) ==
  IF p = 0 THEN 0
  ELSE First({p + Len(lit) + 1 :
                lit \in {l \in TotalLiterals : TotalHit(s, p, l)}})

\* re.search(r"(?:gpu_total|total_gpu|gres/gpu)[:=](\d+)", s): the position
\* of the first digit of the group, 0 without a match.
TotalMatch(s) == TotalGroup(s, TotalStart(s))

\* The first digit at or after position i, 0 when there is none.
FirstDigit(s, i) == First({j \in i..Len(s) : IsDigit(Ch(s, j))})

\* re.search(r"gpu[^0-9]*(\d+)", s): the first run of digits after the
\* first "gpu"; 0 without a match.
PerNodeMatch(s) ==
  IF Contains(s, "gpu") THEN FirstDigit(s, Find(s, "gpu", 1) + 3) ELSE 0

\* the digits of the group that starts at d
GroupAt(s, d) == SubSeq(s, d, DigitsEnd(s, d))

gpu_count(nodes, gpu_field) ==
  IF ~Contains(gpu_field, "gpu") THEN "-"
  ELSE IF TotalMatch(gpu_field) # 0
       THEN GroupAt(gpu_field, TotalMatch(gpu_field))
  ELSE IF ~IntOk(nodes) THEN "-"
  ELSE IF PerNodeMatch(gpu_field) = 0 THEN "-"
  ELSE IntStr(IntOf(nodes) * DigitsAt(gpu_field, PerNodeMatch(gpu_field)))

\* Faulty variant of JobOfParts: the dependency field is passed as it is.
JobOfParts_dep_raw(parts) ==
  [id |-> parts[1], user |-> parts[2], state |-> parts[3],
   time |-> parts[4], left |-> parts[5], prio |-> parts[6],
   nodes |-> parts[7], reason |-> parts[8],
   gpu |-> gpu_count(parts[7], parts[9]),
   name |-> parts[10], cpu |-> parts[11], mem |-> parts[12],
   part |-> parts[13], account |-> parts[14], qos |-> parts[15],
   submit |-> parts[16], dep |-> parts[17]]

\* the record appended for a row of at least 17 fields
JobOfParts(parts) ==
  [id |-> parts[1], user |-> parts[2], state |-> parts[3],
   time |-> parts[4], left |-> parts[5], prio |-> parts[6],
   nodes |-> parts[7], reason |-> parts[8], gpu |-> gpu_count(parts[7], parts[9]),
   name |-> parts[10], cpu |-> parts[11], mem |-> parts[12],
   part |-> parts[13], account |-> parts[14], qos |-> parts[15],
   submit |-> parts[16],
   dep |-> IF parts[17] = "(null)" \/ parts[17] = "N/A" THEN ""
           ELSE parts[17]]

\* Faulty variant of JobsOfParts: the ValueError of int(parts[6]) is not
\* caught and the row is lost.
JobsOfParts_gpu_abort(parts) ==
  IF Len(parts) < MinJobFields THEN <<>>
  ELSE IF /\ Contains(parts[9], "gpu")
          /\ TotalMatch(parts[9]) = 0
          /\ ~IntOk(parts[7])
       THEN <<>>
  ELSE <<JobOfParts(parts)>>

\* one pass of the loop over a line that is not blank
JobsOfParts(parts) ==
  IF Len(parts) < MinJobFields THEN <<>> ELSE <<JobOfParts(parts)>>

RECURSIVE JobLoop_stops(_, _)
\* Faulty variant of JobLoop: a row with too few fields ends the loop.
JobLoop_stops(lines, jobs_data) ==
  IF lines = <<>> THEN jobs_data
  ELSE IF IsBlank(Head(lines)) THEN JobLoop_stops(Tail(lines), jobs_data)
  ELSE IF Len(SplitWs(Head(lines))) < MinJobFields THEN jobs_data
  ELSE JobLoop_stops(Tail(lines),
                     jobs_data \o JobsOfParts(SplitWs(Head(lines))))

RECURSIVE JobLoop(_, _)
\* The for loop of get_job_stats over lines[1:].
JobLoop(lines, jobs_data) ==
  IF lines = <<>> THEN jobs_data
  ELSE IF IsBlank(Head(lines)) THEN JobLoop(Tail(lines), jobs_data)
  ELSE JobLoop(Tail(lines), jobs_data \o JobsOfParts(SplitWs(Head(lines))))

get_job_stats(res) ==
  IF run_slurm_command(res).raised THEN <<>>
  ELSE JobLoop(Tail(SplitOn(run_slurm_command(res).text, "\n")), <<>>)

(***************************************************************************)
(* slurm_backend.get_job_details.  raw_res is the execution of             *)
(* "scontrol show job <id>", sstat_res the execution of "sstat -j <id>"    *)
(* in case the function issues it; issued lists the commands it ran.       *)
(***************************************************************************)
\* Faulty variant of get_job_details: the usage sample is fetched for
\* every job.
get_job_details_any_state(raw_res, sstat_res) ==
  [raw |-> IF run_slurm_command(raw_res).raised
           THEN "Error fetching job details."
           ELSE run_slurm_command(raw_res).text,
   sstat |-> IF run_slurm_command(sstat_res).raised THEN ""
             ELSE run_slurm_command(sstat_res).text,
   issued |-> <<"scontrol show job", "sstat -j">>]

get_job_details(raw_res, sstat_res) ==
  LET raw == IF run_slurm_command(raw_res).raised
             THEN "Error fetching job details."
             ELSE run_slurm_command(raw_res).text
  IN  IF Contains(raw, "JobState=RUNNING")
      THEN [raw |-> raw,
            sstat |-> IF run_slurm_command(sstat_res).raised THEN ""
                      ELSE run_slurm_command(sstat_res).text,
            issued |-> <<"scontrol show job", "sstat -j">>]
      ELSE [raw |-> raw, sstat |-> "",
            issued |-> <<"scontrol show job">>]

(***************************************************************************)
(* smon_screens.JobDetailScreen.compose: the usage section and the map of  *)
(* the configuration fields.                                               *)
(***************************************************************************)
\* the usage section of compose: absent, the three metrics, or the notice
usage_section(sstat) ==
  IF sstat = "" \/ Contains(Casefold(sstat), "error")
  THEN [shown |-> FALSE, metrics |-> <<>>, notice |-> ""]
  ELSE IF Len(SplitOn(Strip(sstat), "|")) >= 3
  THEN [shown |-> TRUE,
        metrics |-> SubSeq(SplitOn(Strip(sstat), "|"), 1, 3),
        notice |-> ""]
  ELSE [shown |-> TRUE, metrics |-> <<>>,
        notice |-> "No sstat metrics available yet."]

interesting_keys ==
  <<"JobId", "JobName", "UserId", "Account", "QOS", "JobState", "Reason",
    "Dependency", "RunTime", "TimeLimit", "SubmitTime", "StartTime",
    "Partition", "NodeList", "NumNodes", "NumCPUs", "Command", "WorkDir",
    "StdOut">>

\* re.split(r"\s+", text): an empty piece stands before leading and after
\* trailing white space
ReSplitWs(text) ==
  IF text = "" THEN <<"">>
  ELSE (IF IsSpace(Ch(text, 1)) THEN <<"">> ELSE <<>>)
       \o SplitWs(text)
       \o (IF IsSpace(Ch(text, Len(text))) THEN <<"">> ELSE <<>>)

\* parsed_map[key] = value: a dict keeps the place of the first assignment
\* of a key and the value of the last
DictSet(map, key, value) ==
  IF HasKey(map, key)
  THEN [i \in 1..Len(map) |->
          IF map[i].k = key THEN [k |-> key, v |-> value] ELSE map[i]]
  ELSE Append(map, [k |-> key, v |-> value])

RECURSIVE parsed_map_first_wins(_, _)
\* Faulty variant of parsed_map: a key keeps its first value.
parsed_map_first_wins(tokens, map) ==
  IF tokens = <<>> THEN map
  ELSE IF ~Contains(Head(tokens), "=")
  THEN parsed_map_first_wins(Tail(tokens), map)
  ELSE LET kv == SplitFirst(Head(tokens), Find(Head(tokens), "=", 1))
       IN  IF (\E i \in 1..Len(interesting_keys) :
                 interesting_keys[i] = kv.k) /\ ~HasKey(map, kv.k)
           THEN parsed_map_first_wins(Tail(tokens),
                                      DictSet(map, kv.k, kv.v))
           ELSE parsed_map_first_wins(Tail(tokens), map)

RECURSIVE parsed_map(_, _)
\* the loop over the tokens of the blob
parsed_map(tokens, map) ==
  IF tokens = <<>> THEN map
  ELSE IF ~Contains(Head(tokens), "=")
  THEN parsed_map(Tail(tokens), map)
  ELSE LET kv == SplitFirst(Head(tokens), Find(Head(tokens), "=", 1))
       IN  IF \E i \in 1..Len(interesting_keys) :
                interesting_keys[i] = kv.k
           THEN parsed_map(Tail(tokens), DictSet(map, kv.k, kv.v))
           ELSE parsed_map(Tail(tokens), map)

\* what compose shows of the details: the usage section and the rows of
\* the configuration grid
compose(data) ==
  [usage |-> usage_section(data.sstat),
   grid |-> parsed_map(ReSplitWs(data.raw), <<>>)]

(***************************************************************************)
(* The filter engine (SlurmDashboard._filters_enabled, _filter_jobs).      *)
(***************************************************************************)
filters_enabled(user, prefix) == user # "" \/ prefix # ""

\* Faulty variant of JobMatches: one matching criterion is enough.
JobMatches_any(job, user_filter, prefix_filter) ==
  \/ user_filter # "" /\ Casefold(job.user) = user_filter
  \/ prefix_filter # "" /\ StartsAt(Casefold(job.name), 1, prefix_filter)

\* the two tests of the loop body, on the casefolded filters
JobMatches(job, user_filter, prefix_filter) ==
  /\ user_filter # "" => Casefold(job.user) = user_filter
  /\ prefix_filter # "" => StartsAt(Casefold(job.name), 1, prefix_filter)

RECURSIVE FilterLoop(_, _, _, _)
FilterLoop(jobs, user_filter, prefix_filter, filtered_jobs) ==
  IF jobs = <<>> THEN filtered_jobs
  ELSE FilterLoop(Tail(jobs), user_filter, prefix_filter,
                  IF JobMatches(Head(jobs), user_filter, prefix_filter)
                  THEN Append(filtered_jobs, Head(jobs))
                  ELSE filtered_jobs)

\* Faulty variant of filter_jobs: no test for disabled filters, and both
\* criteria are compared even when they are empty.
filter_jobs_strict(jobs, user, prefix) ==
  SelectSeq(jobs,
            LAMBDA job : /\ Casefold(job.user) = Casefold(user)
                         /\ StartsAt(Casefold(job.name), 1, Casefold(prefix)))

\* SlurmDashboard._filter_jobs
filter_jobs(jobs, user, prefix) ==
  IF ~filters_enabled(user, prefix) THEN jobs
  ELSE FilterLoop(jobs, Casefold(user), Casefold(prefix), <<>>)

\* " ".join(parts) for the parts that were appended
JoinParts(u, n) == IF u # "" /\ n # "" THEN u \o " " \o n ELSE u \o n

\* the summary is cut to 30 characters and "..." once it is longer than 33
Shorten(joined) ==
  IF Len(joined) > 33 THEN SubSeq(joined, 1, 30) \o "..." ELSE joined

\* SlurmDashboard._build_filter_status
\* Faulty variant of build_filter_status: the total is shown as the number
\* of visible jobs.
build_filter_status_total_only(user, prefix, total_jobs, visible_jobs) ==
  IF ~filters_enabled(user, prefix) THEN " FILTER: OFF "
  ELSE " " \o Shorten(JoinParts(IF user # "" THEN "U=" \o user ELSE "",
                                   IF prefix # "" THEN "N^=" \o prefix ELSE ""))
       \o " (" \o IntStr(total_jobs) \o "/" \o IntStr(total_jobs) \o ") "

build_filter_status(user, prefix, total_jobs, visible_jobs) ==
  IF ~filters_enabled(user, prefix) THEN " FILTER: OFF "
  ELSE " " \o Shorten(JoinParts(IF user # "" THEN "U=" \o user ELSE "",
                                   IF prefix # "" THEN "N^=" \o prefix ELSE ""))
       \o " (" \o IntStr(visible_jobs) \o "/" \o IntStr(total_jobs) \o ") "

(***************************************************************************)
(* The render tables.  A DataTable is a record: its rows (each a sequence  *)
(* of cells), its cursor coordinate, its vertical scroll offset and its    *)
(* number of columns.                                                      *)
(***************************************************************************)
NodeColumns == 5

CompactColumns == 6

FullColumns == 17

EmptyTable ==
  [rows |-> <<>>, cursor |-> [row |-> 0, column |-> 0], scroll_y |-> 0,
   columns |-> 0]

\* Faulty variant of clear: the cursor and the scroll offset return to 0 but
\* the rows stay, so a refresh patches the table instead of replacing it.
clear_keeps_rows(t) ==
  [t EXCEPT !.cursor = [row |-> 0, column |-> 0], !.scroll_y = 0]

\* DataTable.clear(): the rows go, cursor and scroll offset return to 0.
clear(t) ==
  [t EXCEPT !.rows = <<>>, !.cursor = [row |-> 0, column |-> 0],
            !.scroll_y = 0]

add_row(t, cells) == [t EXCEPT !.rows = Append(@, cells)]

move_cursor(t, r, c) == [t EXCEPT !.cursor = [row |-> r, column |-> c]]

row_count(t) == Len(t.rows)

\* DataTable.action_cursor_down / action_cursor_up
action_cursor_down(t) ==
  IF t.cursor.row < row_count(t) - 1
  THEN [t EXCEPT !.cursor.row = @ + 1] ELSE t

action_cursor_up(t) ==
  IF t.cursor.row > 0 THEN [t EXCEPT !.cursor.row = @ - 1] ELSE t

(***************************************************************************)
(* The float arithmetic of make_bar.  used / total and the product with    *)
(* 100 are binary64 operations: each result is the exact value rounded to  *)
(* 53 significant bits, ties to the even mantissa.  A positive float is    *)
(* [m, e]: m its 53 bits, the most significant first, e the power of two   *)
(* of the first bit.  The integers of the model stay below 2^31, so the    *)
(* mantissa is kept as a sequence of bits.                                 *)
(***************************************************************************)
RECURSIVE BitLength(_)
\* int.bit_length()
BitLength(n) == IF n = 0 THEN 0 ELSE 1 + BitLength(n \div 2)

RECURSIVE Pow2(_)
Pow2(k) == IF k = 0 THEN 1 ELSE 2 * Pow2(k - 1)

RECURSIVE ShiftsUntil(_, _)
\* the least k with 2^k * u >= t
ShiftsUntil(u, t) == IF u >= t THEN 0 ELSE 1 + ShiftsUntil(2 * u, t)

\* the e with 2^e <= u / t < 2^(e + 1), for positive u and t
QuotientExponent(u, t) ==
  IF u >= t THEN BitLength(u \div t) - 1 ELSE 0 - ShiftsUntil(u, t)

RECURSIVE QuotientBits(_, _, _)
\* the next n bits of the long division with remainder r < den, followed by
\* one bit that tells whether a remainder is left
QuotientBits(r, den, n) ==
  IF n = 0 THEN <<IF r = 0 THEN 0 ELSE 1>>
  ELSE IF 2 * r >= den THEN <<1>> \o QuotientBits(2 * r - den, den, n - 1)
       ELSE <<0>> \o QuotientBits(2 * r, den, n - 1)

\* the sequence backwards
Reverse(seq) == [i \in 1..Len(seq) |-> seq[Len(seq) + 1 - i]]

Zeros(k) == [i \in 1..k |-> 0]

\* m + 1 for a mantissa m that is not all ones
Incremented(m) ==
  LET z == CHOOSE k \in 1..Len(m) :
             m[k] = 0 /\ \A i \in (k + 1)..Len(m) : m[i] = 1
  IN [i \in 1..Len(m) |-> IF i < z THEN m[i] ELSE IF i = z THEN 1 ELSE 0]

\* The float nearest to the value whose bits from the leading one on are
\* given, e being the power of two of the first: round to nearest, ties to
\* even.
RoundToDouble(bits, e) ==
  LET m == SubSeq(bits, 1, 53)
      half == Len(bits) > 53 /\ bits[54] = 1
      more == \E i \in 55..Len(bits) : bits[i] = 1
  IN IF ~(half /\ (more \/ m[53] = 1)) THEN [m |-> m, e |-> e]
     ELSE IF \A i \in 1..53 : m[i] = 1
          THEN [m |-> <<1>> \o Zeros(52), e |-> e + 1]
          ELSE [m |-> Incremented(m), e |-> e]

\* u / t of two positive integers
FloatDiv(u, t) ==
  LET e == QuotientExponent(u, t)
      num == IF e >= 0 THEN u ELSE u * Pow2(0 - e)
      den == IF e >= 0 THEN t * Pow2(e) ELSE t
  IN RoundToDouble(<<1>> \o QuotientBits(num - den, den, 53), e)

\* the sum of two bit sequences of one length, least significant bit first
AddBits(a, b) ==
  LET n == Len(a)
      carry[i \in 0..n] ==
        IF i = 0 THEN 0 ELSE (a[i] + b[i] + carry[i - 1]) \div 2
  IN [i \in 1..(n + 1) |->
        IF i <= n THEN (a[i] + b[i] + carry[i - 1]) % 2 ELSE carry[n]]

\* the bits of 100 * m, least significant first: 100 = 64 + 32 + 4
Times100Bits(m) ==
  AddBits(AddBits(Zeros(2) \o Reverse(m) \o Zeros(4),
                  Zeros(5) \o Reverse(m) \o Zeros(1)),
          Zeros(6) \o Reverse(m) \o Zeros(1))

\* x * 100 of a positive float x
FloatTimes100(x) ==
  LET p == Times100Bits(x.m)
      top == CHOOSE k \in 1..Len(p) :
               p[k] = 1 /\ \A i \in (k + 1)..Len(p) : p[i] = 0
  IN RoundToDouble([i \in 1..top |-> p[top + 1 - i]], x.e - 52 + top - 1)

RECURSIVE BitsValue(_)
\* the number whose bits are given, the most significant first
BitsValue(bits) ==
  IF bits = <<>> THEN 0
  ELSE 2 * BitsValue(SubSeq(bits, 1, Len(bits) - 1)) + bits[Len(bits)]

\* int(x) of a positive float x below 2^31
FloatToInt(x) == IF x.e < 0 THEN 0 ELSE BitsValue(SubSeq(x.m, 1, x.e + 1))

\* int((used / total) * 100) for total > 0; the operations are symmetric in
\* the sign and int() cuts towards zero
FloatPercent(used, total) ==
  IF used = 0 THEN 0
  ELSE IF used > 0 THEN FloatToInt(FloatTimes100(FloatDiv(used, total)))
  ELSE 0 - FloatToInt(FloatTimes100(FloatDiv(0 - used, total)))

(***************************************************************************)
(* ClusterBars.update_bars: the four load bars.  make_bar gives a bar its  *)
(* label, the text used/total (pct%) and one task with a total and a       *)
(* completed amount.                                                       *)
(***************************************************************************)
make_bar(label, used, total) ==
  [label |-> label, used |-> used, total |-> total,
   pct |-> IF total > 0 THEN FloatPercent(used, total) ELSE 0,
   task_total |-> Max(total, used),
   completed |-> used]

update_bars(theo, real) ==
  <<make_bar("Total", theo[1], theo[2]),
    make_bar("Active", theo[1], real[1]),
    make_bar("Total", theo[3], theo[4]),
    make_bar("Active", theo[3], real[2])>>

(***************************************************************************)
(* What the scheduler commands can print.  Each refresh draws one          *)
(* execution of the node listing and one of the job listing.               *)
(***************************************************************************)
NodeLine(i) ==
  "NodeName=n" \o NatStr(i)
  \o " State=" \o (IF i % 2 = 1 THEN "IDLE" ELSE "DRAINING")
  \o " CPUAlloc=" \o NatStr(i) \o " CPUTot=4 AllocMem=2048"
  \o " RealMemory=4096 Gres=gpu:a100:2"
  \o " AllocTRES=cpu=" \o NatStr(i) \o ",gres/gpu:a100=1"

RECURSIVE NodeText(_)
\* k node lines, each ended by a newline
NodeText(k) == IF k = 0 THEN "" ELSE NodeText(k - 1) \o NodeLine(k) \o "\n"

\* a free-text Reason whose words look like a Key=Value token
MalformedNodeText ==
  "NodeName=n1 State=DOWN CPUAlloc=0 CPUTot=4 Reason=check CPUTot=low\n"

MissingBinaryText == "/bin/sh: 1: scontrol: not found\n"

NodeExecs ==
  {[status |-> "ok", out |-> NodeText(k)] : k \in 0..MaxNodes}
  \cup {[status |-> "ok", out |-> MalformedNodeText],
        [status |-> "fail", out |-> MissingBinaryText],
        [status |-> "raise", out |-> ""]}

\* the 17 column titles of the format string, cut to the column widths
JobHeader ==
  "JOBID USER STATE TIME TIME_LEFT PRIORITY NODE NODELIST(REASON) "
  \o "TRES_PER_NODE NAME CPUS MIN_MEMO PARTITION ACCOUNT QOS SUBMIT_TIME "
  \o "DEPENDENCY\n"

JobLine(i) ==
  "10" \o NatStr(i)
  \o (IF i % 2 = 1 THEN " al RUNNING" ELSE " bo PENDING")
  \o " 1:00 2:00 5 2 node1 gpu:2 "
  \o (IF i <= 2 THEN "train" ELSE "eval") \o NatStr(i)
  \o " 4 8G gpu acct std 12:00 (null)"

RECURSIVE JobLines(_)
JobLines(k) == IF k = 0 THEN "" ELSE JobLines(k - 1) \o JobLine(k) \o "\n"

\* the header and k job rows
JobText(k) == JobHeader \o JobLines(k)

\* the header, a row with fewer than 17 fields, then job 2 alone
ShortRowJobText == JobHeader \o "101 al RUNNING 1:00\n" \o JobLine(2) \o "\n"

JobExecs ==
  {[status |-> "ok", out |-> JobText(k)] : k \in 0..MaxJobs}
  \cup {[status |-> "ok", out |-> ShortRowJobText],
        [status |-> "fail", out |-> "/bin/sh: 1: squeue: not found\n"]}

\* what the user can type in the two inputs of the filter dialog
UserInputs == {"", "  ", " AL"}

PrefixInputs == {"", " ", "Tr "}

\* the criteria these inputs leave in job_filter_user and job_filter_prefix
StoredUsers == {Strip(u) : u \in UserInputs} \cup {""}

StoredPrefixes == {Strip(x) : x \in PrefixInputs} \cup {""}

\* executions of the cancel command
CancelExecs ==
  {[status |-> "ok", out |-> ""],
   [status |-> "fail", out |-> "scancel: error: Invalid job id specified\n"],
   [status |-> "raise", out |-> ""]}

TermWidths == {60, 90}

(***************************************************************************)
(* SlurmDashboard.update_data, the refresh engine.  w holds the widgets    *)
(* the refresh writes: node_table, job_table, wrapper_scroll_x,            *)
(* filter_pill, cluster_bars.                                              *)
(***************************************************************************)
NodeRow(node) ==
  LET c_style == IF node.c_u >= node.c_t THEN "[red]" ELSE "[green]"
      g_style == IF node.g_u >= node.g_t THEN "[red]" ELSE "[green]"
      state_fmt ==
        IF Contains(node.state, "IDLE")
        THEN "[green]" \o node.state \o "[/]"
        ELSE IF Contains(node.state, "DOWN") \/ Contains(node.state, "DRAIN")
        THEN "[bold red]" \o node.state \o "[/]"
        ELSE node.state
  IN  <<node.name,
        state_fmt,
        c_style \o IntStr(node.c_u) \o "[/]/[dim]" \o IntStr(node.c_t)
          \o "[/]",
        IntStr(node.m_u \div 1024) \o "G",
        g_style \o IntStr(node.g_u) \o "[/]/[dim]" \o IntStr(node.g_t)
          \o "[/]">>

JobRow(job, compact) ==
  LET state_color == IF job.state = "RUNNING" THEN "green" ELSE "yellow"
      state_txt == "[" \o state_color \o "]" \o job.state \o "[/]"
  IN  IF compact
      THEN <<job.id, job.user, state_txt, job.left, job.nodes, job.gpu>>
      ELSE <<job.id, job.name, job.user, job.account, state_txt, job.prio,
             job.left, job.gpu, job.cpu, job.mem, job.nodes, job.reason,
             job.qos, job.part, job.dep, job.time, job.submit>>

RECURSIVE NodeRows(_)
\* the row update_data adds for each node, in order
NodeRows(nodes) ==
  IF nodes = <<>> THEN <<>>
  ELSE <<NodeRow(Head(nodes))>> \o NodeRows(Tail(nodes))

RECURSIVE JobRows(_, _)
\* the row update_data adds for each job, in order
JobRows(jobs, compact) ==
  IF jobs = <<>> THEN <<>>
  ELSE <<JobRow(Head(jobs), compact)>> \o JobRows(Tail(jobs), compact)

\* Lines 605 and 611: what update_data derives from the node snapshot.
NodeView(stats) ==
  [raised |-> stats.raised,
   nodes |-> stats.nodes,
   rows |-> NodeRows(stats.nodes),
   bars |-> update_bars(stats.theo, stats.real)]

\* The node snapshot of each execution of the node listing, computed once.
NodeSnapshot == [nres \in NodeExecs |-> NodeView(get_cluster_stats(nres))]

\* Lines 607-612: the counts, the rows and the pill of the filtered jobs.
JobView(total_jobs, jobs, user, prefix) ==
  [total_jobs |-> total_jobs,
   visible_jobs |-> Len(jobs),
   jobs |-> jobs,
   rows |-> [compact \in BOOLEAN |-> JobRows(jobs, compact)],
   pill |-> build_filter_status(user, prefix, total_jobs, Len(jobs))]

\* Lines 606-608: the snapshot is counted, then filtered.
FilteredView(all_jobs, user, prefix) ==
  JobView(Len(all_jobs), filter_jobs(all_jobs, user, prefix), user, prefix)

\* The job snapshot of each execution of the job listing under each filter
\* criteria, computed once.
JobSnapshot ==
  [jres \in JobExecs, user \in StoredUsers, prefix \in StoredPrefixes |->
     FilteredView(get_job_stats(jres), user, prefix)]

RECURSIVE AddRows(_, _)
\* the loop of add_row calls
AddRows(t, rows) ==
  IF rows = <<>> THEN t ELSE AddRows(add_row(t, Head(rows)), Tail(rows))

\* Faulty variant of RestoreView: the saved coordinate is moved to as it is.
RestoreView_unclamped(filled, scroll, cursor) ==
  IF row_count(filled) > 0
  THEN move_cursor([filled EXCEPT !.scroll_y = scroll], cursor.row,
                   cursor.column)
  ELSE [filled EXCEPT !.scroll_y = scroll]

\* Faulty variant of RestoreView: the scroll offset stays where clear left it.
RestoreView_scroll_lost(filled, scroll, cursor) ==
  IF row_count(filled) > 0
  THEN move_cursor(filled,
                   Min(Max(cursor.row, 0), row_count(filled) - 1),
                   Min(Max(cursor.column, 0), filled.columns - 1))
  ELSE filled

\* Lines 634-640 and 684-691: the scroll offset is written back, and the
\* cursor is moved to the saved coordinate clamped into the rebuilt table.
RestoreView(filled, scroll, cursor) ==
  IF row_count(filled) > 0
  THEN move_cursor([filled EXCEPT !.scroll_y = scroll],
                   Min(Max(cursor.row, 0), row_count(filled) - 1),
                   Min(Max(cursor.column, 0), filled.columns - 1))
  ELSE [filled EXCEPT !.scroll_y = scroll]

\* Lines 614-640: the node table is cleared, rebuilt, and its scroll offset
\* and cursor are put back.
RebuildNodeTable(n_table, rows) ==
  RestoreView(AddRows(clear(n_table), rows), n_table.scroll_y,
              n_table.cursor)

\* Lines 642-691: the same for the job table.
RebuildJobTable(j_table, rows) ==
  RestoreView(AddRows(clear(j_table), rows), j_table.scroll_y,
              j_table.cursor)

\* Lines 611-691 on the widgets w: the bars, the pill, the two tables; the
\* scroll offset of the wrapper is written back as it was read.
Render(w, nview, jview, compact) ==
  [node_table |-> RebuildNodeTable(w.node_table, nview.rows),
   job_table |-> RebuildJobTable(w.job_table, jview.rows[compact]),
   wrapper_scroll_x |-> w.wrapper_scroll_x,
   filter_pill |-> jview.pill,
   cluster_bars |-> nview.bars]

\* Lines 615 and 645-647: what update_data reads before it clears the tables.
Locals(w) ==
  [n_scroll |-> w.node_table.scroll_y,
   n_cursor |-> w.node_table.cursor,
   j_scroll_x |-> w.wrapper_scroll_x,
   j_scroll_y |-> w.job_table.scroll_y,
   j_cursor |-> w.job_table.cursor]

\* Faulty variant of update_data: the job snapshot is rendered unfiltered.
update_data_unfiltered(w, nres, jres, user, prefix, compact) ==
  [raised |-> NodeSnapshot[nres].raised,
   w |-> IF NodeSnapshot[nres].raised THEN w
         ELSE Render(w, NodeSnapshot[nres], JobSnapshot[jres, "", ""],
                     compact),
   locals |-> IF NodeSnapshot[nres].raised THEN <<>> ELSE <<Locals(w)>>]

\* One call of update_data on the widgets w with the two command executions
\* of this call.  raised: an exception left update_data (get_cluster_stats
\* raised it, before anything was written).
update_data(w, nres, jres, user, prefix, compact) ==
  [raised |-> NodeSnapshot[nres].raised,
   w |-> IF NodeSnapshot[nres].raised THEN w
         ELSE Render(w, NodeSnapshot[nres], JobSnapshot[jres, user, prefix],
                     compact),
   locals |-> IF NodeSnapshot[nres].raised THEN <<>> ELSE <<Locals(w)>>]

(***************************************************************************)
(* The state of the dashboard.                                             *)
(***************************************************************************)
VARIABLES
  app_state,          \* "constructed", "mounted", "running", "crashed", "exited"
  screens,            \* the modal screens pushed over the main screen
  focused,            \* the focused widget of the main screen
  node_table,         \* DataTable #node_table
  job_table,          \* DataTable #job_table
  wrapper_scroll_x,   \* scroll_x of #job-scroll-wrapper
  filter_pill,        \* text of #filter-pill
  cluster_bars,       \* the bars of ClusterBars
  pane_mode,          \* "split", "nodes", "jobs"
  node_pane_width,
  node_pane_display,  \* display of #node-pane
  job_pane_display,   \* display of #job-pane
  key_mode,           \* "normal", "toggle"
  show_compact,
  job_filter_user,
  job_filter_prefix,
  term_width,         \* self.size.width
  timer_interval,     \* interval of the update_data timer, 0 before it is set
  notice,             \* the last notification shown by self.notify
  fetched,            \* the two command executions of the last update_data
  last,               \* what the last handler did
  call                \* a call of a slurm_backend function: fn, arg, ret

dataVars ==
  <<node_table, job_table, wrapper_scroll_x, filter_pill, cluster_bars,
    fetched>>

layoutVars ==
  <<pane_mode, node_pane_width, node_pane_display, job_pane_display>>

filterVars == <<job_filter_user, job_filter_prefix>>

dashboardVars ==
  <<app_state, screens, focused, node_table, job_table, wrapper_scroll_x,
    filter_pill, cluster_bars, pane_mode, node_pane_width, node_pane_display,
    job_pane_display, key_mode, show_compact, job_filter_user,
    job_filter_prefix, term_width, timer_interval, notice, fetched, last>>

vars == <<dashboardVars, call>>

DEFAULT_NODE_PANE_WIDTH == 42

MIN_NODE_PANE_WIDTH == 24

PANE_RESIZE_STEP == 4

ReservedForJobsPane == 40

REFRESH_RATE == 2

NoExec == [status |-> "none", out |-> ""]

Widgets ==
  [node_table |-> node_table, job_table |-> job_table,
   wrapper_scroll_x |-> wrapper_scroll_x, filter_pill |-> filter_pill,
   cluster_bars |-> cluster_bars]

SetWidgets(w) ==
  /\ node_table' = w.node_table
  /\ job_table' = w.job_table
  /\ wrapper_scroll_x' = w.wrapper_scroll_x
  /\ filter_pill' = w.filter_pill
  /\ cluster_bars' = w.cluster_bars

\* What the last handler did: its name, the number of update_data calls it
\* made, the scancel commands it ran, and the locals of its update_data call
\* (none when the call raised before it read them).
Handler(op, refreshes, scancel, locals) ==
  [op |-> op, refreshes |-> refreshes, scancel |-> scancel,
   locals |-> locals]

\* no call of a backend function is under way
NoCall ==
  [fn |-> "none", src |-> <<>>, arg |-> NoExec, done |-> FALSE, ret |-> <<>>]

\* The dashboard after SlurmDashboard() and compose, before the mount event.
Constructed ==
  /\ app_state = "constructed"
  /\ screens = <<>>
  /\ focused = "none"
  /\ node_table = EmptyTable
  /\ job_table = EmptyTable
  /\ wrapper_scroll_x = 0
  /\ filter_pill = " FILTER: OFF "
  /\ cluster_bars = <<>>
  /\ pane_mode = "split"
  /\ node_pane_width = DEFAULT_NODE_PANE_WIDTH
  /\ node_pane_display = TRUE
  /\ job_pane_display = TRUE
  /\ key_mode = "normal"
  /\ show_compact = FALSE
  /\ job_filter_user = ""
  /\ job_filter_prefix = ""
  /\ term_width \in TermWidths
  /\ timer_interval = 0
  /\ notice = ""
  /\ fetched = [nodes |-> NoExec, jobs |-> NoExec]
  /\ last = Handler("init", 0, <<>>, <<>>)

\* The state after construction: nothing has called the backend yet.
Init == Constructed /\ call = NoCall

(***************************************************************************)
(* Pane layout.                                                            *)
(***************************************************************************)
\* SlurmDashboard.apply_pane_layout: the width, the pane displays and the
\* focus it leaves.
\* Faulty variant of apply_pane_layout: the width follows the room the
\* terminal leaves, below the minimum too.
apply_pane_layout_no_floor(mode, width, tw, foc) ==
  IF mode = "nodes"
  THEN [node_pane_width |-> width, node_pane_display |-> TRUE,
        job_pane_display |-> FALSE, focused |-> "node_table"]
  ELSE IF mode = "jobs"
  THEN [node_pane_width |-> width, node_pane_display |-> FALSE,
        job_pane_display |-> TRUE, focused |-> "job_table"]
  ELSE [node_pane_width |-> Min(width, tw - ReservedForJobsPane),
        node_pane_display |-> TRUE, job_pane_display |-> TRUE,
        focused |-> foc]

apply_pane_layout(mode, width, tw, foc) ==
  IF mode = "nodes"
  THEN [node_pane_width |-> width, node_pane_display |-> TRUE,
        job_pane_display |-> FALSE, focused |-> "node_table"]
  ELSE IF mode = "jobs"
  THEN [node_pane_width |-> width, node_pane_display |-> FALSE,
        job_pane_display |-> TRUE, focused |-> "job_table"]
  ELSE LET max_nodes == Max(MIN_NODE_PANE_WIDTH, tw - ReservedForJobsPane)
       IN  [node_pane_width |->
              Max(MIN_NODE_PANE_WIDTH, Min(width, max_nodes)),
            node_pane_display |-> TRUE, job_pane_display |-> TRUE,
            focused |-> foc]

SetLayout(mode, lay) ==
  /\ pane_mode' = mode
  /\ node_pane_width' = lay.node_pane_width
  /\ node_pane_display' = lay.node_pane_display
  /\ job_pane_display' = lay.job_pane_display
  /\ focused' = lay.focused

\* SlurmDashboard.rebuild_job_columns
rebuild_job_columns(t, compact) ==
  [clear(t) EXCEPT !.columns = IF compact THEN CompactColumns
                                ELSE FullColumns]

(***************************************************************************)
(* Start-up and the refresh timer.                                         *)
(***************************************************************************)
\* Faulty variant of on_mount: the timer is set but the first update_data is
\* left to its first tick.
on_mount_without_refresh(E) ==
  /\ app_state = "constructed"
  /\ SetLayout("split",
               apply_pane_layout("split", DEFAULT_NODE_PANE_WIDTH, term_width,
                                 "job_table"))
  /\ timer_interval' = REFRESH_RATE
  /\ node_table' = [node_table EXCEPT !.columns = NodeColumns]
  /\ app_state' = "mounted"
  /\ last' = Handler("on_mount", 0, <<>>, <<>>)
  /\ UNCHANGED <<call, screens, job_table, wrapper_scroll_x, filter_pill,
                 cluster_bars, fetched, key_mode, show_compact, filterVars,
                 term_width, notice>>

\* SlurmDashboard.on_mount
on_mount(E) ==
  /\ app_state = "constructed"
  /\ \E n \in E.nodes, j \in E.jobs :
       \E r \in {update_data(
                   [Widgets EXCEPT
                      !.node_table.columns = NodeColumns,
                      !.filter_pill =
                         build_filter_status(job_filter_user,
                                             job_filter_prefix, 0, 0)],
                   n, j, job_filter_user, job_filter_prefix, show_compact)} :
           /\ SetLayout("split",
                        apply_pane_layout("split", DEFAULT_NODE_PANE_WIDTH,
                                          term_width, "job_table"))
           /\ timer_interval' = REFRESH_RATE
           /\ SetWidgets(r.w)
           /\ fetched' = [nodes |-> n, jobs |-> j]
           /\ app_state' = IF r.raised THEN "crashed" ELSE "mounted"
           /\ last' = Handler("on_mount", 1, <<>>, r.locals)
  /\ UNCHANGED <<call, screens, key_mode, show_compact, filterVars, term_width,
                 notice>>

\* SlurmDashboard.watch_show_compact, called once by the framework when the
\* reactive show_compact is initialised after the mount.
watch_show_compact_init(E) ==
  /\ app_state = "mounted"
  /\ \E n \in E.nodes, j \in E.jobs :
       \E r \in {update_data(
                   [Widgets EXCEPT
                      !.job_table = rebuild_job_columns(@, show_compact)],
                   n, j, job_filter_user, job_filter_prefix, show_compact)} :
           /\ SetWidgets(r.w)
           /\ fetched' = [nodes |-> n, jobs |-> j]
           /\ app_state' = IF r.raised THEN "crashed" ELSE "running"
           /\ last' = Handler("watch_show_compact", 1, <<>>, r.locals)
  /\ UNCHANGED <<call, screens, focused, layoutVars, key_mode, show_compact,
                 filterVars, term_width, timer_interval, notice>>

\* Faulty variant of Tick: the refresh gives the focus back to the job table,
\* as on_mount does.
Tick_refocus(E) ==
  /\ app_state = "running"
  /\ timer_interval > 0
  /\ \E n \in E.nodes, j \in E.jobs :
       \E r \in {update_data(Widgets, n, j, job_filter_user,
                             job_filter_prefix, show_compact)} :
           /\ SetWidgets(r.w)
           /\ fetched' = [nodes |-> n, jobs |-> j]
           /\ app_state' = IF r.raised THEN "crashed" ELSE "running"
           /\ last' = Handler("tick", 1, <<>>, r.locals)
  /\ focused' = "job_table"
  /\ UNCHANGED <<call, screens, layoutVars, key_mode, show_compact, filterVars,
                 term_width, timer_interval, notice>>

\* A tick of the timer set by on_mount: update_data.
\* Faulty variant of Tick: the refresh leaves the cursor of the job table
\* on the last row.
Tick_last_row(E) ==
  /\ app_state = "running"
  /\ timer_interval > 0
  /\ \E n \in E.nodes, j \in E.jobs :
       \E r \in {update_data(Widgets, n, j, job_filter_user,
                             job_filter_prefix, show_compact)} :
           /\ SetWidgets([r.w EXCEPT
                            !.job_table.cursor.row =
                               Max(0, Len(r.w.job_table.rows) - 1)])
           /\ fetched' = [nodes |-> n, jobs |-> j]
           /\ app_state' = IF r.raised THEN "crashed" ELSE "running"
           /\ last' = Handler("tick", 1, <<>>, r.locals)
  /\ UNCHANGED <<call, screens, focused, layoutVars, key_mode, show_compact,
                 filterVars, term_width, timer_interval, notice>>

Tick(E) ==
  /\ app_state = "running"
  /\ timer_interval > 0
  /\ \E n \in E.nodes, j \in E.jobs :
       \E r \in {update_data(Widgets, n, j, job_filter_user,
                             job_filter_prefix, show_compact)} :
           /\ SetWidgets(r.w)
           /\ fetched' = [nodes |-> n, jobs |-> j]
           /\ app_state' = IF r.raised THEN "crashed" ELSE "running"
           /\ last' = Handler("tick", 1, <<>>, r.locals)
  /\ UNCHANGED <<call, screens, focused, layoutVars, key_mode, show_compact,
                 filterVars, term_width, timer_interval, notice>>

(***************************************************************************)
(* Key routing: SlurmDashboard.on_key first, then BINDINGS for a key that  *)
(* on_key did not stop.                                                    *)
(***************************************************************************)
Keys ==
  {"question_mark", "slash", "z", "shift+left", "shift+right", "H", "L",
   "m", "escape", "h", "left", "l", "right", "n", "j", "k", "v", "x",
   "delete", "y", "c", "q"}

\* event.character of a key
Character(key) ==
  IF key = "question_mark" THEN "?"
  ELSE IF key = "slash" THEN "/"
  ELSE IF Len(key) = 1 THEN key
  ELSE ""

\* Faulty variant of on_key: the key mode is looked at first.
on_key_mode_first(key, mode, foc) ==
  IF mode = "toggle"
  THEN IF key \in {"m", "escape"} THEN "set_key_mode_normal"
       ELSE IF key \in {"h", "left"} THEN "action_narrow_nodes_pane"
       ELSE IF key \in {"l", "right"} THEN "action_widen_nodes_pane"
       ELSE IF key = "n" THEN "action_toggle_nodes_only"
       ELSE IF key = "j" THEN "action_toggle_jobs_only"
       ELSE IF key = "v" THEN "action_reset_panes"
       ELSE "pass"
  ELSE IF Character(key) = "?" THEN "action_show_help"
  ELSE IF Character(key) = "/" THEN "action_show_filter"
  ELSE IF key = "z" THEN "action_clear_filters"
  ELSE IF key = "shift+left" THEN "action_focus_nodes_pane"
  ELSE IF key = "shift+right" THEN "action_focus_jobs_pane"
  ELSE IF Character(key) = "H" THEN "action_focus_nodes_pane"
  ELSE IF Character(key) = "L" THEN "action_focus_jobs_pane"
  ELSE IF foc = "job_table"
  THEN IF key \in {"left", "h"} THEN "wrapper_scroll_left"
       ELSE IF key \in {"right", "l"} THEN "wrapper_scroll_right"
       ELSE IF key = "j" THEN "job_cursor_down"
       ELSE IF key = "k" THEN "job_cursor_up"
       ELSE "pass"
  ELSE IF foc = "node_table"
  THEN IF key = "j" THEN "node_cursor_down"
       ELSE IF key = "k" THEN "node_cursor_up"
       ELSE "pass"
  ELSE "pass"

\* The handler on_key runs for a key, "pass" when it leaves the event alone.
on_key(key, mode, foc) ==
  IF Character(key) = "?" THEN "action_show_help"
  ELSE IF Character(key) = "/" THEN "action_show_filter"
  ELSE IF key = "z" THEN "action_clear_filters"
  ELSE IF key = "shift+left" THEN "action_focus_nodes_pane"
  ELSE IF key = "shift+right" THEN "action_focus_jobs_pane"
  ELSE IF Character(key) = "H" THEN "action_focus_nodes_pane"
  ELSE IF Character(key) = "L" THEN "action_focus_jobs_pane"
  ELSE IF mode = "toggle"
  THEN IF key \in {"m", "escape"} THEN "set_key_mode_normal"
       ELSE IF key \in {"h", "left"} THEN "action_narrow_nodes_pane"
       ELSE IF key \in {"l", "right"} THEN "action_widen_nodes_pane"
       ELSE IF key = "n" THEN "action_toggle_nodes_only"
       ELSE IF key = "j" THEN "action_toggle_jobs_only"
       ELSE IF key = "v" THEN "action_reset_panes"
       ELSE "pass"
  ELSE IF foc = "job_table"
  THEN IF key \in {"left", "h"} THEN "wrapper_scroll_left"
       ELSE IF key \in {"right", "l"} THEN "wrapper_scroll_right"
       ELSE IF key = "j" THEN "job_cursor_down"
       ELSE IF key = "k" THEN "job_cursor_up"
       ELSE "pass"
  ELSE IF foc = "node_table"
  THEN IF key = "j" THEN "node_cursor_down"
       ELSE IF key = "k" THEN "node_cursor_up"
       ELSE "pass"
  ELSE "pass"

\* SlurmDashboard.BINDINGS
BINDINGS(key) ==
  IF key = "q" THEN "action_quit"
  ELSE IF key = "c" THEN "action_toggle_compact"
  ELSE IF key = "slash" THEN "action_show_filter"
  ELSE IF key = "z" THEN "action_clear_filters"
  ELSE IF key = "m" THEN "action_toggle_mode"
  ELSE IF key = "question_mark" THEN "action_show_help"
  ELSE IF key \in {"x", "delete"} THEN "action_kill_job"
  ELSE IF key \in {"y", "copy"} THEN "action_copy_job_id"
  ELSE "none"

Route(key, mode, foc) ==
  IF on_key(key, mode, foc) # "pass" THEN on_key(key, mode, foc)
  ELSE BINDINGS(key)

\* The main screen is on top and some key reaches the handler named h.
Pressed(h) ==
  /\ app_state = "running"
  /\ screens = <<>>
  /\ \E key \in Keys : Route(key, key_mode, focused) = h

(***************************************************************************)
(* Navigation.                                                             *)
(***************************************************************************)
job_cursor_down ==
  /\ Pressed("job_cursor_down")
  /\ job_table' = action_cursor_down(job_table)
  /\ last' = Handler("on_key", 0, <<>>, <<>>)
  /\ UNCHANGED <<call, app_state, screens, focused, node_table, wrapper_scroll_x,
                 filter_pill, cluster_bars, fetched, layoutVars, key_mode,
                 show_compact, filterVars, term_width, timer_interval,
                 notice>>

job_cursor_up ==
  /\ Pressed("job_cursor_up")
  /\ job_table' = action_cursor_up(job_table)
  /\ last' = Handler("on_key", 0, <<>>, <<>>)
  /\ UNCHANGED <<call, app_state, screens, focused, node_table, wrapper_scroll_x,
                 filter_pill, cluster_bars, fetched, layoutVars, key_mode,
                 show_compact, filterVars, term_width, timer_interval,
                 notice>>

node_cursor_down ==
  /\ Pressed("node_cursor_down")
  /\ node_table' = action_cursor_down(node_table)
  /\ last' = Handler("on_key", 0, <<>>, <<>>)
  /\ UNCHANGED <<call, app_state, screens, focused, job_table, wrapper_scroll_x,
                 filter_pill, cluster_bars, fetched, layoutVars, key_mode,
                 show_compact, filterVars, term_width, timer_interval,
                 notice>>

node_cursor_up ==
  /\ Pressed("node_cursor_up")
  /\ node_table' = action_cursor_up(node_table)
  /\ last' = Handler("on_key", 0, <<>>, <<>>)
  /\ UNCHANGED <<call, app_state, screens, focused, job_table, wrapper_scroll_x,
                 filter_pill, cluster_bars, fetched, layoutVars, key_mode,
                 show_compact, filterVars, term_width, timer_interval,
                 notice>>

\* wrapper.scroll_left / scroll_right; the scrollable width is bounded.
wrapper_scroll_left ==
  /\ Pressed("wrapper_scroll_left")
  /\ wrapper_scroll_x' = Max(wrapper_scroll_x - 1, 0)
  /\ last' = Handler("on_key", 0, <<>>, <<>>)
  /\ UNCHANGED <<call, app_state, screens, focused, node_table, job_table,
                 filter_pill, cluster_bars, fetched, layoutVars, key_mode,
                 show_compact, filterVars, term_width, timer_interval,
                 notice>>

wrapper_scroll_right ==
  /\ Pressed("wrapper_scroll_right")
  /\ wrapper_scroll_x' = Min(wrapper_scroll_x + 1, MaxScroll)
  /\ last' = Handler("on_key", 0, <<>>, <<>>)
  /\ UNCHANGED <<call, app_state, screens, focused, node_table, job_table,
                 filter_pill, cluster_bars, fetched, layoutVars, key_mode,
                 show_compact, filterVars, term_width, timer_interval,
                 notice>>

\* The focused table scrolled vertically by the user (wheel, page keys): the
\* DataTable's own handling, no code of the dashboard.
table_scroll ==
  /\ app_state = "running"
  /\ screens = <<>>
  /\ \E y \in 0..MaxScroll :
       \/ /\ focused = "node_table"
          /\ y # node_table.scroll_y
          /\ node_table' = [node_table EXCEPT !.scroll_y = y]
          /\ UNCHANGED job_table
       \/ /\ focused = "job_table"
          /\ y # job_table.scroll_y
          /\ job_table' = [job_table EXCEPT !.scroll_y = y]
          /\ UNCHANGED node_table
  /\ last' = Handler("scroll", 0, <<>>, <<>>)
  /\ UNCHANGED <<call, app_state, screens, focused, wrapper_scroll_x, filter_pill,
                 cluster_bars, fetched, layoutVars, key_mode, show_compact,
                 filterVars, term_width, timer_interval, notice>>

\* Faulty variant of action_focus_nodes_pane: the layout is left alone.
action_focus_nodes_pane_keeps_layout ==
  /\ Pressed("action_focus_nodes_pane")
  /\ focused' = "node_table"
  /\ last' = Handler("action_focus_nodes_pane", 0, <<>>, <<>>)
  /\ UNCHANGED <<call, app_state, screens, dataVars, key_mode, show_compact,
                 filterVars, term_width, timer_interval, notice, layoutVars>>

action_focus_nodes_pane ==
  /\ Pressed("action_focus_nodes_pane")
  /\ IF pane_mode = "jobs"
     THEN SetLayout("split",
                    [apply_pane_layout("split", node_pane_width, term_width,
                                       focused)
                       EXCEPT !.focused = "node_table"])
     ELSE /\ focused' = "node_table"
          /\ UNCHANGED layoutVars
  /\ last' = Handler("action_focus_nodes_pane", 0, <<>>, <<>>)
  /\ UNCHANGED <<call, app_state, screens, dataVars, key_mode, show_compact,
                 filterVars, term_width, timer_interval, notice>>

action_focus_jobs_pane ==
  /\ Pressed("action_focus_jobs_pane")
  /\ IF pane_mode = "nodes"
     THEN SetLayout("split",
                    [apply_pane_layout("split", node_pane_width, term_width,
                                       focused)
                       EXCEPT !.focused = "job_table"])
     ELSE /\ focused' = "job_table"
          /\ UNCHANGED layoutVars
  /\ last' = Handler("action_focus_jobs_pane", 0, <<>>, <<>>)
  /\ UNCHANGED <<call, app_state, screens, dataVars, key_mode, show_compact,
                 filterVars, term_width, timer_interval, notice>>

\* App.action_quit, bound to q
action_quit ==
  /\ Pressed("action_quit")
  /\ app_state' = "exited"
  /\ last' = Handler("action_quit", 0, <<>>, <<>>)
  /\ UNCHANGED <<call, screens, focused, dataVars, layoutVars, key_mode,
                 show_compact, filterVars, term_width, timer_interval,
                 notice>>

(***************************************************************************)
(* Compact view, filters, kill.                                            *)
(***************************************************************************)
\* action_toggle_compact and the watcher of show_compact it triggers:
\* rebuild_job_columns, then update_data.
action_toggle_compact(E) ==
  /\ Pressed("action_toggle_compact")
  /\ show_compact' = ~show_compact
  /\ \E n \in E.nodes, j \in E.jobs :
       \E r \in {update_data(
                   [Widgets EXCEPT
                      !.job_table = rebuild_job_columns(@, ~show_compact)],
                   n, j, job_filter_user, job_filter_prefix,
                   ~show_compact)} :
           /\ SetWidgets(r.w)
           /\ fetched' = [nodes |-> n, jobs |-> j]
           /\ app_state' = IF r.raised THEN "crashed" ELSE "running"
           /\ last' = Handler("action_toggle_compact", 1, <<>>, r.locals)
  /\ UNCHANGED <<call, screens, focused, layoutVars, key_mode, filterVars,
                 term_width, timer_interval, notice>>

\* action_show_filter: the filter dialog is pushed.
action_show_filter ==
  /\ Pressed("action_show_filter")
  /\ screens' = <<[kind |-> "filter", job_id |-> "", job_user |-> ""]>>
  /\ last' = Handler("action_show_filter", 0, <<>>, <<>>)
  /\ UNCHANGED <<call, app_state, focused, dataVars, layoutVars, key_mode,
                 show_compact, filterVars, term_width, timer_interval,
                 notice>>

FilterOnTop ==
  /\ app_state = "running"
  /\ screens # <<>>
  /\ Head(screens).kind = "filter"

\* JobFilterScreen._collect_filters
collect_filters(user_input, prefix_input) ==
  [user |-> Strip(user_input), prefix |-> Strip(prefix_input)]

\* Faulty variant of handle_filter_response: the criteria are stored and the
\* refresh is left to the next tick.
handle_filter_response_deferred(E, result, op) ==
  /\ job_filter_user' = Strip(result.user)
  /\ job_filter_prefix' = Strip(result.prefix)
  /\ last' = Handler(op, 0, <<>>, <<>>)
  /\ UNCHANGED <<call, app_state, dataVars>>

\* handle_filter_response with a result that is not None
handle_filter_response(E, result, op) ==
  /\ job_filter_user' = Strip(result.user)
  /\ job_filter_prefix' = Strip(result.prefix)
  /\ \E n \in E.nodes, j \in E.jobs :
       \E r \in {update_data(Widgets, n, j, Strip(result.user),
                             Strip(result.prefix), show_compact)} :
           /\ SetWidgets(r.w)
           /\ fetched' = [nodes |-> n, jobs |-> j]
           /\ app_state' = IF r.raised THEN "crashed" ELSE "running"
           /\ last' = Handler(op, 1, <<>>, r.locals)

\* The Apply button or the enter key of the filter dialog.
filter_apply(E) ==
  /\ FilterOnTop
  /\ screens' = Tail(screens)
  /\ \E u \in UserInputs, p \in PrefixInputs :
       handle_filter_response(E, collect_filters(u, p), "filter_apply")
  /\ UNCHANGED <<call, focused, layoutVars, key_mode, show_compact, term_width,
                 timer_interval, notice>>

\* The Clear button of the filter dialog.
filter_clear(E) ==
  /\ FilterOnTop
  /\ screens' = Tail(screens)
  /\ handle_filter_response(E, [user |-> "", prefix |-> ""], "filter_clear")
  /\ UNCHANGED <<call, focused, layoutVars, key_mode, show_compact, term_width,
                 timer_interval, notice>>

\* The Cancel button or the escape key: dismiss(None).
filter_cancel ==
  /\ FilterOnTop
  /\ screens' = Tail(screens)
  /\ last' = Handler("filter_cancel", 0, <<>>, <<>>)
  /\ UNCHANGED <<call, app_state, focused, dataVars, layoutVars, key_mode,
                 show_compact, filterVars, term_width, timer_interval,
                 notice>>

action_clear_filters(E) ==
  /\ Pressed("action_clear_filters")
  /\ IF ~filters_enabled(job_filter_user, job_filter_prefix)
     THEN /\ last' = Handler("action_clear_filters", 0, <<>>, <<>>)
          /\ UNCHANGED <<app_state, dataVars, filterVars>>
     ELSE /\ job_filter_user' = ""
          /\ job_filter_prefix' = ""
          /\ \E n \in E.nodes, j \in E.jobs :
               \E r \in {update_data(Widgets, n, j, "", "", show_compact)} :
                   /\ SetWidgets(r.w)
                   /\ fetched' = [nodes |-> n, jobs |-> j]
                   /\ app_state' = IF r.raised THEN "crashed" ELSE "running"
                   /\ last' = Handler("action_clear_filters", 1, <<>>, r.locals)
  /\ UNCHANGED <<call, screens, focused, layoutVars, key_mode, show_compact,
                 term_width, timer_interval, notice>>

\* action_kill_job: the confirmation dialog is pushed for the job under the
\* cursor of the focused job table.
action_kill_job ==
  /\ Pressed("action_kill_job")
  /\ LET cursor_row == job_table.cursor.row
     IN  IF focused # "job_table"
         THEN /\ notice' = "Select the Jobs table first!"
              /\ UNCHANGED screens
         ELSE IF cursor_row < 0
         THEN /\ notice' = "No job selected."
              /\ UNCHANGED screens
         ELSE IF cursor_row >= row_count(job_table)
         THEN \* get_row_at raises, the handler catches
              /\ notice' = "Could not identify job."
              /\ UNCHANGED screens
         ELSE LET row_data == job_table.rows[cursor_row + 1]
              IN  /\ screens' =
                       <<[kind |-> "kill", job_id |-> row_data[1],
                          job_user |-> IF show_compact THEN row_data[2]
                                       ELSE row_data[3]]>>
                  /\ UNCHANGED notice
  /\ last' = Handler("action_kill_job", 0, <<>>, <<>>)
  /\ UNCHANGED <<call, app_state, focused, dataVars, layoutVars, key_mode,
                 show_compact, filterVars, term_width, timer_interval>>

KillOnTop ==
  /\ app_state = "running"
  /\ screens # <<>>
  /\ Head(screens).kind = "kill"

\* Faulty variant of handle_kill_response: the answer of the dialog is not
\* looked at.
handle_kill_response_unasked(E, confirmed, job_id, op) ==
  \E c \in CancelExecs :
    /\ notice' = IF run_slurm_command(c).raised THEN "Error: scancel"
                 ELSE notice
    /\ last' = Handler(op, 0,
                       <<[job_id |-> job_id, status |-> c.status,
                          raised |-> run_slurm_command(c).raised]>>,
                       <<>>)
    /\ UNCHANGED dataVars

\* handle_kill_response(confirmed) for the job the dialog was opened for; op
\* names the button that dismissed the dialog.
handle_kill_response(E, confirmed, job_id, op) ==
  IF ~confirmed
  THEN /\ last' = Handler(op, 0, <<>>, <<>>)
       /\ UNCHANGED <<dataVars, notice>>
  ELSE \E c \in CancelExecs :
         IF run_slurm_command(c).raised
         THEN /\ notice' = "Error: scancel"
              /\ last' = Handler(op, 0,
                                 <<[job_id |-> job_id, status |-> c.status,
                                    raised |-> TRUE]>>,
                                 <<>>)
              /\ UNCHANGED dataVars
         ELSE \E n \in E.nodes, j \in E.jobs :
                \E r \in {update_data(Widgets, n, j, job_filter_user,
                                      job_filter_prefix, show_compact)} :
                    /\ SetWidgets(r.w)
                    /\ fetched' = [nodes |-> n, jobs |-> j]
                    /\ notice' = IF r.raised THEN "Error: update_data"
                                 ELSE notice
                    /\ last' = Handler(op, 1,
                                       <<[job_id |-> job_id,
                                          status |-> c.status,
                                          raised |-> FALSE]>>,
                                       r.locals)

\* Faulty variant of kill_button: the job is read from the row under the
\* cursor when the button is pressed.
kill_button_at_cursor(E) ==
  /\ KillOnTop
  /\ screens' = Tail(screens)
  /\ \E button \in {"confirm", "cancel"} :
       handle_kill_response(
         E, button = "confirm",
         IF job_table.cursor.row < row_count(job_table)
         THEN job_table.rows[job_table.cursor.row + 1][1] ELSE "",
         "kill_" \o button)
  /\ UNCHANGED <<call, app_state, focused, layoutVars, key_mode, show_compact,
                 filterVars, term_width, timer_interval>>

\* KillConfirmationScreen.on_button_pressed: dismiss(button id = "confirm")
kill_button(E) ==
  /\ KillOnTop
  /\ screens' = Tail(screens)
  /\ \E button \in {"confirm", "cancel"} :
       handle_kill_response(E, button = "confirm", Head(screens).job_id,
                            "kill_" \o button)
  /\ UNCHANGED <<call, app_state, focused, layoutVars, key_mode, show_compact,
                 filterVars, term_width, timer_interval>>

\* SlurmDashboard.action_show_help with the main screen on top: the
\* shortcut manual is pushed.
action_show_help ==
  /\ Pressed("action_show_help")
  /\ screens' = <<[kind |-> "help", job_id |-> "", job_user |-> ""]>>
  /\ last' = Handler("action_show_help", 0, <<>>, <<>>)
  /\ UNCHANGED <<call, app_state, focused, dataVars, layoutVars, key_mode,
                 show_compact, filterVars, term_width, timer_interval,
                 notice>>

\* ShortcutHelpScreen.key_escape, key_question_mark: dismiss()
help_dismiss ==
  /\ app_state = "running"
  /\ screens # <<>>
  /\ Head(screens).kind = "help"
  /\ screens' = Tail(screens)
  /\ last' = Handler("help_dismiss", 0, <<>>, <<>>)
  /\ UNCHANGED <<call, app_state, focused, dataVars, layoutVars, key_mode,
                 show_compact, filterVars, term_width, timer_interval,
                 notice>>

(***************************************************************************)
(* Key mode and pane layout actions.                                       *)
(***************************************************************************)
action_toggle_mode ==
  /\ Pressed("action_toggle_mode")
  /\ key_mode' = IF key_mode = "toggle" THEN "normal" ELSE "toggle"
  /\ last' = Handler("action_toggle_mode", 0, <<>>, <<>>)
  /\ UNCHANGED <<call, app_state, screens, focused, dataVars, layoutVars,
                 show_compact, filterVars, term_width, timer_interval,
                 notice>>

\* Faulty variant of set_key_mode_normal: the edit mode is not left.
set_key_mode_normal_stays ==
  /\ Pressed("set_key_mode_normal")
  /\ last' = Handler("set_key_mode_normal", 0, <<>>, <<>>)
  /\ UNCHANGED <<call, app_state, screens, focused, dataVars, layoutVars,
                 key_mode, show_compact, filterVars, term_width,
                 timer_interval, notice>>

\* m or escape in edit mode: _set_key_mode("normal")
set_key_mode_normal ==
  /\ Pressed("set_key_mode_normal")
  /\ key_mode' = "normal"
  /\ last' = Handler("set_key_mode_normal", 0, <<>>, <<>>)
  /\ UNCHANGED <<call, app_state, screens, focused, dataVars, layoutVars,
                 show_compact, filterVars, term_width, timer_interval,
                 notice>>

action_narrow_nodes_pane ==
  /\ Pressed("action_narrow_nodes_pane")
  /\ IF pane_mode # "split"
     THEN UNCHANGED <<layoutVars, focused>>
     ELSE SetLayout("split",
            apply_pane_layout("split",
              Max(MIN_NODE_PANE_WIDTH, node_pane_width - PANE_RESIZE_STEP),
              term_width, focused))
  /\ last' = Handler("action_narrow_nodes_pane", 0, <<>>, <<>>)
  /\ UNCHANGED <<call, app_state, screens, dataVars, key_mode, show_compact,
                 filterVars, term_width, timer_interval, notice>>

\* Faulty variant of action_widen_nodes_pane: without the early return.
action_widen_nodes_pane_any_mode ==
  /\ Pressed("action_widen_nodes_pane")
  /\ LET max_nodes == Max(MIN_NODE_PANE_WIDTH,
                          term_width - ReservedForJobsPane)
     IN  SetLayout(pane_mode,
           apply_pane_layout(pane_mode,
             Min(max_nodes, node_pane_width + PANE_RESIZE_STEP),
             term_width, focused))
  /\ last' = Handler("action_widen_nodes_pane", 0, <<>>, <<>>)
  /\ UNCHANGED <<call, app_state, screens, dataVars, key_mode, show_compact,
                 filterVars, term_width, timer_interval, notice>>

action_widen_nodes_pane ==
  /\ Pressed("action_widen_nodes_pane")
  /\ IF pane_mode # "split"
     THEN UNCHANGED <<layoutVars, focused>>
     ELSE LET max_nodes == Max(MIN_NODE_PANE_WIDTH,
                               term_width - ReservedForJobsPane)
          IN  SetLayout("split",
                apply_pane_layout("split",
                  Min(max_nodes, node_pane_width + PANE_RESIZE_STEP),
                  term_width, focused))
  /\ last' = Handler("action_widen_nodes_pane", 0, <<>>, <<>>)
  /\ UNCHANGED <<call, app_state, screens, dataVars, key_mode, show_compact,
                 filterVars, term_width, timer_interval, notice>>

\* What a pane toggle leaves in last: besides the fields of Handler, the pane
\* modes it started from in its last two runs in a row (one mode when the
\* handler before it was another one).
Toggled(op) ==
  [op |-> op, refreshes |-> 0, scancel |-> <<>>, locals |-> <<>>,
   modes |-> IF last.op = op
             THEN <<last.modes[Len(last.modes)], pane_mode>>
             ELSE <<pane_mode>>]

\* Faulty variant of action_toggle_nodes_only: the nodes-only mode is never
\* left.
action_toggle_nodes_only_stuck ==
  /\ Pressed("action_toggle_nodes_only")
  /\ SetLayout("nodes", apply_pane_layout("nodes", node_pane_width,
                                          term_width, focused))
  /\ last' = Toggled("action_toggle_nodes_only")
  /\ UNCHANGED <<call, app_state, screens, dataVars, key_mode, show_compact,
                 filterVars, term_width, timer_interval, notice>>

action_toggle_nodes_only ==
  /\ Pressed("action_toggle_nodes_only")
  /\ LET mode == IF pane_mode = "nodes" THEN "split" ELSE "nodes"
     IN  SetLayout(mode, apply_pane_layout(mode, node_pane_width, term_width,
                                           focused))
  /\ last' = Toggled("action_toggle_nodes_only")
  /\ UNCHANGED <<call, app_state, screens, dataVars, key_mode, show_compact,
                 filterVars, term_width, timer_interval, notice>>

action_toggle_jobs_only ==
  /\ Pressed("action_toggle_jobs_only")
  /\ LET mode == IF pane_mode = "jobs" THEN "split" ELSE "jobs"
     IN  SetLayout(mode, apply_pane_layout(mode, node_pane_width, term_width,
                                           focused))
  /\ last' = Toggled("action_toggle_jobs_only")
  /\ UNCHANGED <<call, app_state, screens, dataVars, key_mode, show_compact,
                 filterVars, term_width, timer_interval, notice>>

\* Faulty variant of action_reset_panes: the width is kept.
action_reset_panes_keeps_width ==
  /\ Pressed("action_reset_panes")
  /\ SetLayout("split",
               apply_pane_layout("split", node_pane_width, term_width,
                                 focused))
  /\ last' = Handler("action_reset_panes", 0, <<>>, <<>>)
  /\ UNCHANGED <<call, app_state, screens, dataVars, key_mode, show_compact,
                 filterVars, term_width, timer_interval, notice>>

action_reset_panes ==
  /\ Pressed("action_reset_panes")
  /\ SetLayout("split",
               apply_pane_layout("split", DEFAULT_NODE_PANE_WIDTH, term_width,
                                 focused))
  /\ last' = Handler("action_reset_panes", 0, <<>>, <<>>)
  /\ UNCHANGED <<call, app_state, screens, dataVars, key_mode, show_compact,
                 filterVars, term_width, timer_interval, notice>>

\* Faulty variant of on_resize: the layout is not applied.
on_resize_no_layout ==
  /\ app_state = "running"
  /\ \E tw \in TermWidths :
       /\ tw # term_width
       /\ term_width' = tw
  /\ last' = Handler("on_resize", 0, <<>>, <<>>)
  /\ UNCHANGED <<call, app_state, screens, dataVars, key_mode, show_compact,
                 filterVars, timer_interval, notice, layoutVars, focused>>

\* SlurmDashboard.on_resize: the terminal takes another width.
on_resize ==
  /\ app_state = "running"
  /\ \E tw \in TermWidths :
       /\ tw # term_width
       /\ term_width' = tw
       /\ IF pane_mode = "split"
          THEN SetLayout("split",
                 apply_pane_layout("split", node_pane_width, tw, focused))
          ELSE UNCHANGED <<layoutVars, focused>>
  /\ last' = Handler("on_resize", 0, <<>>, <<>>)
  /\ UNCHANGED <<call, app_state, screens, dataVars, key_mode, show_compact,
                 filterVars, timer_interval, notice>>

(***************************************************************************)
(* Calls of the parsers of slurm_backend.py on listings built field by     *)
(* field.  A node line is described by the keys it holds, in order, and    *)
(* the value of each key; a job row by its fields.  call.src keeps the     *)
(* description, call.arg the execution whose output is the text.           *)
(***************************************************************************)
RECURSIVE JoinWith(_, _)
\* sep.join(parts)
JoinWith(parts, sep) ==
  IF parts = <<>> THEN ""
  ELSE IF Len(parts) = 1 THEN parts[1]
  ELSE parts[1] \o sep \o JoinWith(Tail(parts), sep)

\* the sequence without its i-th element
Remove(seq, i) == SubSeq(seq, 1, i - 1) \o SubSeq(seq, i + 1, Len(seq))

\* the keys of a line of scontrol show node -o that the parser reads
NodeKeys ==
  <<"NodeName", "State", "CPUAlloc", "CPUTot", "AllocMem", "RealMemory",
    "Gres", "AllocTRES">>

IntKeys == {"CPUAlloc", "CPUTot", "AllocMem", "RealMemory"}

\* the numbers of node i
NodeInts(i) ==
  [CPUAlloc |-> i, CPUTot |-> 8 * i, AllocMem |-> 1024 * i,
   RealMemory |-> 4096 * i, Gres |-> 4 * i, AllocTRES |-> i + 1]

\* the values scontrol prints for node i; Reason is a key the parser does
\* not read
NodeValues(i) ==
  [NodeName |-> "n" \o NatStr(i),
   State |-> "IDLE",
   CPUAlloc |-> NatStr(NodeInts(i).CPUAlloc),
   CPUTot |-> NatStr(NodeInts(i).CPUTot),
   AllocMem |-> NatStr(NodeInts(i).AllocMem),
   RealMemory |-> NatStr(NodeInts(i).RealMemory),
   Gres |-> "gpu:" \o NatStr(NodeInts(i).Gres),
   AllocTRES |-> "cpu=" \o NatStr(i) \o ",gres/gpu="
                   \o NatStr(NodeInts(i).AllocTRES),
   Reason |-> "none"]

\* the text of a described node line: its Key=Value tokens
NodeLineOf(d) ==
  JoinWith([i \in 1..Len(d.keys) |-> d.keys[i] \o "=" \o d.val[d.keys[i]]],
           " ")

\* the complete line of node i
FullLine(i) == [keys |-> NodeKeys, val |-> NodeValues(i)]

\* the orders of the tokens: the four integer tokens in every order between
\* the others, and the whole line backwards
TokenOrders ==
  {<<"NodeName", "State">> \o p \o <<"Gres", "AllocTRES">> :
     p \in {q \in [1..4 -> IntKeys] :
              \A i, j \in 1..4 : i # j => q[i] # q[j]}}
  \cup {Reverse(NodeKeys)}

PermutedLines == {[keys |-> o, val |-> NodeValues(1)] : o \in TokenOrders}

\* lines that lack one key, and a line without any key the parser reads
MissingKeyLines ==
  {[keys |-> Remove(NodeKeys, i), val |-> NodeValues(1)] :
     i \in 1..Len(NodeKeys)}
  \cup {[keys |-> <<"Reason">>, val |-> NodeValues(1)]}

\* values of an integer key that int() rejects
BadInts == {"", "4x"}

MalformedLines(i) ==
  {[keys |-> NodeKeys, val |-> [NodeValues(i) EXCEPT ![k] = bad]] :
     k \in IntKeys, bad \in BadInts}

\* values of Gres
GresValues ==
  {"gpu:4", "gpu:a100:2", "gpu:4(S:0-1)", "mps:100,gpu:4", "gpu:4,mps:100",
   "gpu", "mps:100", "(null)"}

GresLines ==
  {[keys |-> NodeKeys, val |-> [NodeValues(1) EXCEPT !.Gres = g]] :
     g \in GresValues}

\* values of AllocTRES
AllocTresValues ==
  {"cpu=4,mem=8000M,gres/gpu:a100=3", "cpu=4,mem=8000M,gres/gpu=12",
   "gres/gpu=2,gres/gpu:a100=1", "cpu=4,mem=8000M", "gres/gpu",
   "cpu=4,gres/gpu=all", "gres/gpu:a100,mem=8", ""}

AllocTresLines ==
  {[keys |-> NodeKeys, val |-> [NodeValues(1) EXCEPT !.AllocTRES = a]] :
     a \in AllocTresValues}

\* values of State
NodeStates == {"IDLE", "MIXED", "DRAINING", "DOWN*", "IDLE+MAINT"}

\* more values of State, for listings of one node
MoreStates == {"FAILING", "IDLE+NO_RESPOND", "ALLOCATED"}

StateLines(i, states) ==
  {[keys |-> NodeKeys, val |-> [NodeValues(i) EXCEPT !.State = st]] :
     st \in states}

\* the lines a listing of several nodes holds at position i
ListedLines(i) ==
  StateLines(i, NodeStates)
  \cup {[keys |-> NodeKeys, val |-> [NodeValues(i) EXCEPT !.CPUTot = ""]],
        [keys |-> Remove(NodeKeys, 4), val |-> NodeValues(i)]}

\* the longest listing of several nodes
MaxLines == 2

\* listings of n nodes
ListingsOf(n) ==
  {l \in [1..n -> UNION {ListedLines(i) : i \in 1..n}] :
     \A i \in 1..n : l[i] \in ListedLines(i)}

NodeListings ==
  {<<d>> : d \in PermutedLines \cup MissingKeyLines \cup MalformedLines(1)
                   \cup GresLines \cup AllocTresLines
                   \cup StateLines(1, MoreStates)}
  \cup UNION {ListingsOf(n) : n \in 2..MaxLines}

\* the execution that prints a described node listing
NodeExecOf(src) ==
  [status |-> "ok",
   out |-> JoinWith([i \in 1..Len(src) |-> NodeLineOf(src[i])], "\n")
             \o "\n"]

\* a caller is about to call fn on the output described by src
Pending(fn, src, arg) ==
  [fn |-> fn, src |-> src, arg |-> arg, done |-> FALSE, ret |-> <<>>]

NodeCalls ==
  {Pending("get_cluster_stats", src, NodeExecOf(src)) : src \in NodeListings}

\* get_cluster_stats() returns, or raises
call_get_cluster_stats ==
  /\ call.fn = "get_cluster_stats"
  /\ ~call.done
  /\ call' = [call EXCEPT !.done = TRUE, !.ret = get_cluster_stats(call.arg)]
  /\ UNCHANGED dashboardVars

\* the fields squeue prints for job i, in the order of the format string
JobFields(i) ==
  <<"45195" \o NatStr(i), IF i % 2 = 1 THEN "bob" ELSE "alice", "PENDING",
    "00:00:00", "08:00:00", "4680", "8", "Priority", "gpu:4",
    "diffusion_lr_schedule", "512", "2048G", "gpu", "ml_ops", "std",
    "2026-02-21T12:02:11", "(null)">>

\* the text of a row: squeue pads each field on the left
JobRowOf(fields) ==
  IF fields = <<>> THEN "  " ELSE "  " \o JoinWith(fields, "   ")

\* the rows a listing holds at position i: the row of job i, that row cut
\* after 16 fields, that row with one field more, a blank line, and that row
\* with a node count that is not a number
ListedRows(i) ==
  {JobFields(i), SubSeq(JobFields(i), 1, MinJobFields - 1),
   JobFields(i) \o <<"extra">>, <<>>, [JobFields(i) EXCEPT ![7] = "N/A"]}

\* the longest listing of several jobs
MaxRows == 3

RowsOf(n) ==
  {l \in [1..n -> UNION {ListedRows(i) : i \in 1..n}] :
     \A i \in 1..n : l[i] \in ListedRows(i)}

\* values of the NODES field and of the TRES_PER_NODE field
NodeCounts == {"1", "8", "N/A"}

GresFields ==
  {"gpu_total=64", "total_gpu=16", "gres/gpu=8", "gpu:4", "gpu:a100:2",
   "gres/gpu:4", "gres:gpu:2", "gpu", "(null)", "N/A"}

GpuRows ==
  {[JobFields(1) EXCEPT ![7] = n, ![9] = g] :
     n \in NodeCounts, g \in GresFields}

\* values of the DEPENDENCY field
Dependencies ==
  {"(null)", "N/A", "afterok:451957", "n/a", "(null),afterany:7", "NULL"}

DepRows == {[JobFields(1) EXCEPT ![17] = d] : d \in Dependencies}

JobListings ==
  UNION {RowsOf(n) : n \in 1..MaxRows}
  \cup {<<r>> : r \in GpuRows \cup DepRows}

\* the execution that prints the header and a described job listing
JobExecOf(src) ==
  [status |-> "ok",
   out |-> JobHeader
             \o JoinWith([i \in 1..Len(src) |-> JobRowOf(src[i])], "\n")
             \o "\n"]

JobCalls ==
  {Pending("get_job_stats", src, JobExecOf(src)) : src \in JobListings}

\* get_job_stats() returns
call_get_job_stats ==
  /\ call.fn = "get_job_stats"
  /\ ~call.done
  /\ call' = [call EXCEPT !.done = TRUE, !.ret = get_job_stats(call.arg)]
  /\ UNCHANGED dashboardVars

\* The filter dialog is applied with what the user typed in its two inputs
\* and the next snapshot is filtered: src holds the number of jobs of the
\* snapshot and the two typed texts.
FilterCalls ==
  {Pending("_filter_jobs",
           [jobs |-> k, user_input |-> u, prefix_input |-> p],
           [status |-> "ok", out |-> JobText(k)]) :
     k \in 0..MaxJobs, u \in UserInputs, p \in PrefixInputs}

\* _collect_filters, handle_filter_response and lines 606-608 of
\* update_data: the criteria are stripped and stored, the snapshot is
\* fetched, counted and filtered.
call_filter_jobs ==
  /\ call.fn = "_filter_jobs"
  /\ ~call.done
  /\ \E result \in {collect_filters(call.src.user_input,
                                    call.src.prefix_input)} :
       \E all_jobs \in {get_job_stats(call.arg)} :
         call' = [call EXCEPT
                    !.done = TRUE,
                    !.ret = [all_jobs |-> all_jobs,
                             view |-> FilteredView(all_jobs,
                                                   Strip(result.user),
                                                   Strip(result.prefix))]]
  /\ UNCHANGED dashboardVars

(***************************************************************************)
(* The job detail screen on blobs built token by token.                    *)
(***************************************************************************)
MaxTokens == 2

DetailTokens ==
  {"JobId=101", "JobState=RUNNING", "JobState=PENDING",
   "Command=run.sh?lr=0.1", "Priority=4680", "Power", "=x"}

\* scontrol separates the fields by blanks and by line breaks with an indent
TokenSeparators == {" ", "\n   "}

BlobTokens == UNION {[1..n -> DetailTokens] : n \in 0..MaxTokens}

UnknownJobTokens ==
  <<"slurm_load_jobs", "error:", "Invalid", "job", "id", "specified">>

SstatExecs ==
  {[status |-> "ok", out |-> "00:12:01|1024K|2048K|0|0\n"],
   [status |-> "ok", out |-> "00:12:01|1024K\n"],
   [status |-> "ok", out |-> " \n"],
   [status |-> "ok", out |-> ""],
   [status |-> "fail", out |-> "sstat: error: no steps running for job 101\n"],
   [status |-> "raise", out |-> ""]}

DetailCallOf(status, tokens, sep, sstat_res) ==
  Pending("JobDetailScreen",
          [status |-> status, tokens |-> tokens, sep |-> sep],
          [raw |-> [status |-> status,
                    out |-> IF status = "raise" THEN ""
                            ELSE JoinWith(tokens, sep) \o "\n"],
           sstat |-> sstat_res])

DetailCalls ==
  {DetailCallOf("ok", tokens, sep, sstat_res) :
     tokens \in BlobTokens, sep \in TokenSeparators,
     sstat_res \in SstatExecs}
  \cup {DetailCallOf(status, UnknownJobTokens, " ", sstat_res) :
          status \in {"fail", "raise"}, sstat_res \in SstatExecs}

\* JobDetailScreen(job_id) is constructed and composed
call_JobDetailScreen ==
  /\ call.fn = "JobDetailScreen"
  /\ ~call.done
  /\ \E data \in {get_job_details(call.arg.raw, call.arg.sstat)} :
       call' = [call EXCEPT !.done = TRUE,
                            !.ret = [data |-> data,
                                     screen |-> compose(data)]]
  /\ UNCHANGED dashboardVars

\* a caller with its input at hand, before the call
\* CPUAlloc and CPUTot of the node of a listing for the load bars: an idle
\* node with no CPUs, quotients that are binary fractions and quotients that
\* are not
BarLoads == {<<0, 0>>, <<0, 8>>, <<3, 4>>, <<8, 8>>, <<7, 25>>, <<29, 50>>}

\* a listing of one node, online or offline, for each load, and the empty
\* listing
BarListings ==
  {<<[keys |-> NodeKeys,
      val |-> [NodeValues(1) EXCEPT !.State = st,
                                    !.CPUAlloc = NatStr(load[1]),
                                    !.CPUTot = NatStr(load[2])]]>> :
     st \in {"MIXED", "DOWN"}, load \in BarLoads}

BarCalls ==
  {Pending("update_bars", src, NodeExecOf(src)) : src \in BarListings}
  \cup {Pending("update_bars", <<>>, [status |-> "ok", out |-> ""])}

\* update_bars(theo, real) on the snapshot of a listing, as update_data
\* calls it
call_update_bars ==
  /\ call.fn = "update_bars"
  /\ ~call.done
  /\ \E stats \in {get_cluster_stats(call.arg)} :
       call' = [call EXCEPT !.done = TRUE,
                            !.ret = [theo |-> stats.theo,
                                     real |-> stats.real,
                                     bars |-> update_bars(stats.theo,
                                                          stats.real)]]
  /\ UNCHANGED dashboardVars

InitBackend ==
  /\ Constructed
  /\ call \in NodeCalls \cup JobCalls \cup FilterCalls \cup DetailCalls
                \cup BarCalls

(***************************************************************************)
(* Specifications.                                                         *)
(***************************************************************************)
\* every output of the scheduler commands
FullEnv == [nodes |-> NodeExecs, jobs |-> JobExecs]

\* a cluster whose listings vary in length only
LiteEnv ==
  [nodes |-> {[status |-> "ok", out |-> NodeText(k)] : k \in {0, MaxNodes}},
   jobs |-> {[status |-> "ok", out |-> JobText(k)] : k \in {0, MaxJobs}}]

\* the same cluster, where the node listing can also be the malformed one
CommandEnv ==
  [nodes |-> LiteEnv.nodes \cup {[status |-> "ok", out |-> MalformedNodeText]},
   jobs |-> LiteEnv.jobs]

\* The refresh engine under every output of the scheduler commands, with
\* navigation and the compact view.
Next ==
  \/ on_mount(FullEnv)
  \/ watch_show_compact_init(FullEnv)
  \/ Tick(FullEnv)
  \/ job_cursor_down
  \/ job_cursor_up
  \/ node_cursor_down
  \/ node_cursor_up
  \/ action_focus_nodes_pane
  \/ action_focus_jobs_pane
  \/ action_toggle_compact(FullEnv)
  \/ action_quit

Spec == Init /\ [][Next]_vars

\* The commands of the user: the filter dialog, clearing the filters and
\* cancelling a job, with the refresh timer running.
NextCommand ==
  \/ on_mount(CommandEnv)
  \/ watch_show_compact_init(CommandEnv)
  \/ Tick(CommandEnv)
  \/ job_cursor_down
  \/ action_focus_nodes_pane
  \/ action_focus_jobs_pane
  \/ action_show_filter
  \/ filter_apply(CommandEnv)
  \/ filter_clear(CommandEnv)
  \/ filter_cancel
  \/ action_clear_filters(CommandEnv)
  \/ action_kill_job
  \/ kill_button(CommandEnv)

SpecCommand == Init /\ [][NextCommand]_vars

\* Scrolling and the refresh.
NextScroll ==
  \/ on_mount(LiteEnv)
  \/ watch_show_compact_init(LiteEnv)
  \/ Tick(LiteEnv)
  \/ wrapper_scroll_left
  \/ wrapper_scroll_right
  \/ table_scroll
  \/ job_cursor_down
  \/ node_cursor_down
  \/ action_focus_nodes_pane
  \/ action_focus_jobs_pane

SpecScroll == Init /\ [][NextScroll]_vars

\* Key mode, pane layout and the refresh.
NextView ==
  \/ on_mount(LiteEnv)
  \/ watch_show_compact_init(LiteEnv)
  \/ Tick(LiteEnv)
  \/ action_toggle_mode
  \/ set_key_mode_normal
  \/ action_narrow_nodes_pane
  \/ action_widen_nodes_pane
  \/ action_toggle_nodes_only
  \/ action_toggle_jobs_only
  \/ action_reset_panes
  \/ action_focus_nodes_pane
  \/ action_focus_jobs_pane
  \/ action_toggle_compact(LiteEnv)
  \/ on_resize

SpecView == Init /\ [][NextView]_vars

\* The parsers of slurm_backend.py on every described listing, and the
\* filter on every typed input.
NextBackend ==
  \/ call_get_cluster_stats
  \/ call_get_job_stats
  \/ call_filter_jobs
  \/ call_JobDetailScreen
  \/ call_update_bars

NextKeys ==
  \/ on_mount(LiteEnv)
  \/ watch_show_compact_init(LiteEnv)
  \/ Tick(LiteEnv)
  \/ action_toggle_mode
  \/ set_key_mode_normal
  \/ action_focus_nodes_pane
  \/ action_focus_jobs_pane
  \/ action_toggle_nodes_only
  \/ action_toggle_jobs_only
  \/ action_show_help
  \/ help_dismiss

SpecKeys == Init /\ [][NextKeys]_vars

SpecBackend == InitBackend /\ [][NextBackend]_vars

(***************************************************************************)
(* Properties of the refresh engine and of the commands.                   *)
(***************************************************************************)
\* The handler that just ended called update_data and the call returned.
Refreshed == last.refreshes = 1 /\ last.locals # <<>>

\* the locals of that call
Saved == Head(last.locals)

\* the cursor row of a table that has rows is one of its rows
InRange(t) == row_count(t) > 0 => t.cursor.row \in 0..(row_count(t) - 1)

\* the cursor of t is the coordinate c clamped into t
ClampedTo(c, t) ==
  row_count(t) > 0 =>
    /\ t.cursor.row = Min(Max(c.row, 0), row_count(t) - 1)
    /\ t.cursor.column = Min(Max(c.column, 0), t.columns - 1)

\* C1: after a refresh the cursor of each table that has rows is the cursor
\* read before the refresh, clamped to (min(max(r,0),N-1), min(max(c,0),C-1)),
\* and at every moment the cursor row of a table that has rows is neither
\* negative nor beyond the last row.
C1_CursorClamped ==
  /\ InRange(node_table)
  /\ InRange(job_table)
  /\ Refreshed => /\ ClampedTo(Saved.n_cursor, node_table)
                  /\ ClampedTo(Saved.j_cursor, job_table)

\* C1: a tick found the job cursor beyond the last row of a shorter snapshot
\* that still has several rows, and left it on the last row.
C1_Witness ==
  /\ Refreshed
  /\ last.op = "tick"
  /\ row_count(job_table) > 1
  /\ Saved.j_cursor.row > row_count(job_table) - 1
  /\ job_table.cursor.row = row_count(job_table) - 1

\* C2 as the claim states it: whatever the scheduler commands print, no
\* refresh lets an exception out, so the dashboard never ends by a crash.
C2_RefreshNeverRaises == app_state # "crashed"

\* C3 as the claim states it: when the node listing fails to execute, the
\* executor's text is empty and the refresh renders no node row.
C3_FailureRendersEmpty ==
  (app_state \in {"mounted", "running"} /\ fetched.nodes.status = "fail")
    => /\ run_slurm_command(fetched.nodes).text = ""
       /\ node_table.rows = <<>>

\* C4: after every update_data the rows of the node table are the node
\* records of the snapshot fetched in that call, in order, and the rows of
\* the job table are the filtered jobs of the snapshot fetched in that call,
\* in order: nothing of an earlier snapshot is left.
C4_FullReplacement ==
  Refreshed =>
    /\ node_table.rows = NodeRows(get_cluster_stats(fetched.nodes).nodes)
    /\ job_table.rows =
         JobRows(filter_jobs(get_job_stats(fetched.jobs), job_filter_user,
                             job_filter_prefix),
                 show_compact)

\* C4: a refresh that found rows in the job table (the cursor was below the
\* first row) and rendered a node snapshot without nodes and a filtered job
\* snapshot of fewer rows.
C4_Witness ==
  /\ Refreshed
  /\ Saved.j_cursor.row > 0
  /\ job_filter_prefix # ""
  /\ row_count(job_table) \in 1..(MaxJobs - 1)
  /\ row_count(node_table) = 0

\* the criteria differ between the two states of a step
FilterChanged ==
  job_filter_user' # job_filter_user \/ job_filter_prefix' # job_filter_prefix

\* the jobs of the listing that pass the criteria, by the job's own fields
MatchingJobs(jobs, user, prefix) ==
  {i \in 1..Len(jobs) :
     /\ user # "" => Casefold(jobs[i].user) = Casefold(user)
     /\ prefix # "" =>
          StartsAt(Casefold(jobs[i].name), 1, Casefold(prefix))}

\* C5: the filter criteria change only in the handler of a filter dialog
\* that returned a result or in action_clear_filters, a timer tick leaves
\* them as they are, and every refresh shows the jobs of its snapshot that
\* pass the criteria current at that moment.
C5_FilterPersists ==
  /\ [][/\ FilterChanged =>
              last'.op \in {"filter_apply", "filter_clear",
                            "action_clear_filters"}
        /\ last'.op = "tick" => UNCHANGED filterVars]_vars
  /\ [](Refreshed =>
          row_count(job_table) =
            Cardinality(MatchingJobs(get_job_stats(fetched.jobs),
                                     job_filter_user, job_filter_prefix)))

\* C5: a tick under criteria set earlier, which hide some jobs of its
\* snapshot and show others.
C5_Witness ==
  /\ Refreshed
  /\ last.op = "tick"
  /\ job_filter_user # ""
  /\ row_count(job_table) \in 1..(Len(get_job_stats(fetched.jobs)) - 1)

\* C6: a refresh leaves pane_mode, node_pane_width, key_mode, show_compact
\* and the input focus as they were, whatever the snapshot holds.
C6_ViewStateKept ==
  [][last'.op = "tick" =>
       UNCHANGED <<pane_mode, node_pane_width, key_mode, show_compact,
                   focused>>]_vars

\* C6: a tick in edit mode, in the compact view, with only the node pane
\* shown, a narrowed node pane and rows in the job table.
C6_Witness ==
  /\ Refreshed
  /\ last.op = "tick"
  /\ key_mode = "toggle"
  /\ show_compact
  /\ pane_mode = "nodes"
  /\ focused = "node_table"
  /\ node_pane_width < DEFAULT_NODE_PANE_WIDTH
  /\ row_count(job_table) > 0

\* C7: after a refresh the vertical scroll offset of the node table, that of
\* the job table and the horizontal scroll offset of the job wrapper are the
\* values read before the tables were cleared, however the row count changed.
C7_ScrollRestored ==
  Refreshed =>
    /\ node_table.scroll_y = Saved.n_scroll
    /\ job_table.scroll_y = Saved.j_scroll_y
    /\ wrapper_scroll_x = Saved.j_scroll_x

\* C7: a tick that found the three offsets away from 0 and rendered
\* snapshots without rows.
C7_Witness ==
  /\ Refreshed
  /\ last.op = "tick"
  /\ node_table.scroll_y > 0
  /\ job_table.scroll_y > 0
  /\ wrapper_scroll_x > 0
  /\ row_count(node_table) = 0
  /\ row_count(job_table) = 0

\* the confirmation dialog is on top after the step and was not before it
KillDialogOpens ==
  /\ screens' # <<>>
  /\ Head(screens').kind = "kill"
  /\ ~(screens # <<>> /\ Head(screens).kind = "kill")

\* C8: a scancel is run only by the handler of a confirmation dialog that
\* its confirm button dismissed, and for the job of that dialog; a dialog
\* dismissed otherwise runs none; and a confirmation dialog is opened only
\* by the kill action, taken with the focus on the job table, for the job of
\* the row under its cursor.
C8_CancelNeedsConfirm ==
  [][/\ last'.scancel # <<>> =>
          /\ KillOnTop
          /\ last'.op = "kill_confirm"
          /\ Len(last'.scancel) = 1
          /\ last'.scancel[1].job_id = Head(screens).job_id
     /\ last'.op = "kill_cancel" => last'.scancel = <<>>
     /\ KillDialogOpens =>
          /\ last'.op = "action_kill_job"
          /\ focused = "job_table"
          /\ job_table.cursor.row \in 0..(row_count(job_table) - 1)
          /\ Head(screens').job_id =
               job_table.rows[job_table.cursor.row + 1][1]]_vars

\* C8: the confirm button of the dialog was pressed and scancel was run for
\* a job.
C8_Witness ==
  /\ last.op = "kill_confirm"
  /\ Len(last.scancel) = 1
  /\ last.scancel[1].job_id = "101"
  /\ screens = <<>>

Returned(fn) == call.fn = fn /\ call.done

\* the field of the node record that holds the integer of a key
FieldOf ==
  [CPUAlloc |-> "c_u", CPUTot |-> "c_t", AllocMem |-> "m_u",
   RealMemory |-> "m_t"]

\* the described line d holds the key k
Holds(d, k) == \E i \in 1..Len(d.keys) : d.keys[i] = k

\* the integer field of key k in the record node is what the described line
\* d gives: the number of its token, or else the default
IntAsDescribed(node, d, k, default) ==
  IF Holds(d, k) /\ d.val[k] \notin BadInts
  THEN NatStr(node[FieldOf[k]]) = d.val[k]
  ELSE node[FieldOf[k]] = default

\* C11 as the claim states it: a node listing with a malformed integer field
\* still yields one record per line, the malformed field alone takes its
\* default, and every other field of every line is as its tokens give it.
C11_MalformedFieldDefaults ==
  Returned("get_cluster_stats") =>
    /\ ~call.ret.raised
    /\ Len(call.ret.nodes) = Len(call.src)
    /\ \A i \in 1..Len(call.src) :
         /\ Holds(call.src[i], "NodeName") =>
              call.ret.nodes[i].name = call.src[i].val.NodeName
         /\ \A k \in IntKeys :
              IntAsDescribed(call.ret.nodes[i], call.src[i], k,
                             IF k = "RealMemory" THEN 1 ELSE 0)

\* the fields of a node record whose key the described line d lacks hold
\* their defaults; mem_total is the default of m_t
MissingDefaults(node, d, mem_total) ==
  /\ ~Holds(d, "NodeName") => node.name = "Unknown"
  /\ ~Holds(d, "CPUAlloc") => node.c_u = 0
  /\ ~Holds(d, "CPUTot") => node.c_t = 0
  /\ ~Holds(d, "AllocMem") => node.m_u = 0
  /\ ~Holds(d, "RealMemory") => node.m_t = mem_total
  /\ ~Holds(d, "AllocTRES") => node.g_u = 0
  /\ ~Holds(d, "Gres") => node.g_t = 0

\* a call of get_cluster_stats returned its records, one per line
Parsed ==
  /\ Returned("get_cluster_stats")
  /\ ~call.ret.raised
  /\ Len(call.ret.nodes) = Len(call.src)

\* C12: in every record get_cluster_stats returns, name is "Unknown" when
\* the line has no NodeName, c_u, c_t, m_u, g_u and g_t are 0 when the line
\* has no CPUAlloc, CPUTot, AllocMem, AllocTRES and Gres, and m_t is 1 when
\* the line has no RealMemory.
C12_MissingKeyDefaults ==
  Parsed =>
    \A i \in 1..Len(call.src) :
      MissingDefaults(call.ret.nodes[i], call.src[i], 1)

\* C12: a line without any key the parser reads gave the record of the
\* defaults.
C12_Witness ==
  /\ Parsed
  /\ call.src[1].keys = <<"Reason">>
  /\ call.ret.nodes =
       <<[name |-> "Unknown", state |-> "Unknown", c_u |-> 0, c_t |-> 0,
          m_u |-> 0, m_t |-> 1, g_u |-> 0, g_t |-> 0]>>

\* C12 as the claim states it: every integer field, m_t included, is 0 when
\* its key is missing.
C12_AllIntegersDefaultZero ==
  Parsed =>
    \A i \in 1..Len(call.src) :
      MissingDefaults(call.ret.nodes[i], call.src[i], 0)

\* no integer key of the described line d has a value that int() rejects
WellFormed(d) == \A k \in IntKeys : Holds(d, k) => d.val[k] \notin BadInts

\* C13: for a listing of well-formed lines get_cluster_stats returns one
\* record per line whose c_u, c_t, m_u and m_t are the numbers of the
\* CPUAlloc, CPUTot, AllocMem and RealMemory tokens of the line, and a line
\* whose tokens are those of node 1 in any order gives the record of node 1.
C13_IntegersOfTokens ==
  (/\ Returned("get_cluster_stats")
   /\ \A i \in 1..Len(call.src) : WellFormed(call.src[i])) =>
    /\ Parsed
    /\ \A i \in 1..Len(call.src) :
         \A k \in IntKeys :
           Holds(call.src[i], k) =>
             NatStr(call.ret.nodes[i][FieldOf[k]]) = call.src[i].val[k]
    /\ call.src \in {<<d>> : d \in PermutedLines} =>
         call.ret.nodes =
           <<[name |-> "n1", state |-> "IDLE",
              c_u |-> NodeInts(1).CPUAlloc, c_t |-> NodeInts(1).CPUTot,
              m_u |-> NodeInts(1).AllocMem, m_t |-> NodeInts(1).RealMemory,
              g_u |-> NodeInts(1).AllocTRES, g_t |-> NodeInts(1).Gres]>>

\* C13: the line of node 1 with its tokens backwards was parsed.
C13_Witness ==
  /\ Parsed
  /\ call.src[1].keys = Reverse(NodeKeys)
  /\ call.ret.nodes[1].c_u = 1
  /\ call.ret.nodes[1].c_t = 8
  /\ call.ret.nodes[1].m_u = 1024
  /\ call.ret.nodes[1].m_t = 4096

\* the first ':' that digits follow, at or after the first "gpu" of g; 0
\* when there is none
ColonAfterGpu(g) ==
  IF Contains(g, "gpu") THEN ColonDigits(g, Find(g, "gpu", 1)) ELSE 0

\* C14 as the claim states it: g_t is the number of the first ":<digits>"
\* that follows the substring "gpu" of Gres, whatever precedes it, and 0 for
\* a Gres without "gpu".
C14_GpuTotalOfGres ==
  Parsed =>
    \A i \in 1..Len(call.src) :
      Holds(call.src[i], "Gres") =>
        /\ ColonAfterGpu(call.src[i].val.Gres) # 0 =>
             call.ret.nodes[i].g_t =
               DigitsAt(call.src[i].val.Gres,
                        ColonAfterGpu(call.src[i].val.Gres) + 1)
        /\ ~Contains(call.src[i].val.Gres, "gpu") =>
             call.ret.nodes[i].g_t = 0

RECURSIVE SumWhere(_, _, _)
\* the sum of a field over the records of nodes at the indices S
SumWhere(nodes, field, S) ==
  IF S = {} THEN 0
  ELSE nodes[FirstOr(S, 0)][field]
       + SumWhere(nodes, field, S \ {FirstOr(S, 0)})

\* the lines of the described listing whose State holds none of the five
\* offline words
OnlineLines(src) ==
  {i \in 1..Len(src) :
     \A word \in {"DOWN", "DRAIN", "FAIL", "MAINT", "NO_RESPOND"} :
       ~(Holds(src[i], "State") /\ Contains(src[i].val.State, word))}

\* C15: the totals get_cluster_stats returns are the sums of c_u, c_t, g_u
\* and g_t over all its records, the online capacities are the sums of c_t
\* and g_t over the records of the lines whose State holds none of DOWN,
\* DRAIN, FAIL, MAINT, NO_RESPOND, and no online capacity exceeds the total
\* capacity.
C15_ClusterTotals ==
  Parsed =>
    /\ call.ret.theo =
         <<SumWhere(call.ret.nodes, "c_u", 1..Len(call.src)),
           SumWhere(call.ret.nodes, "c_t", 1..Len(call.src)),
           SumWhere(call.ret.nodes, "g_u", 1..Len(call.src)),
           SumWhere(call.ret.nodes, "g_t", 1..Len(call.src))>>
    /\ call.ret.real =
         <<SumWhere(call.ret.nodes, "c_t", OnlineLines(call.src)),
           SumWhere(call.ret.nodes, "g_t", OnlineLines(call.src))>>
    /\ call.ret.real[1] <= call.ret.theo[2]
    /\ call.ret.real[2] <= call.ret.theo[4]

\* C15: a listing of a DRAINING node and an IDLE node: the allocation and
\* the capacity of both are in the totals, the capacity of the IDLE node
\* alone is online.
C15_Witness ==
  /\ Parsed
  /\ Len(call.src) = 2
  /\ WellFormed(call.src[1])
  /\ call.src[1].keys = NodeKeys
  /\ call.src[1].val.State = "DRAINING"
  /\ call.src[2] = FullLine(2)
  /\ call.ret.theo =
       <<NodeInts(1).CPUAlloc + NodeInts(2).CPUAlloc,
         NodeInts(1).CPUTot + NodeInts(2).CPUTot,
         NodeInts(1).AllocTRES + NodeInts(2).AllocTRES,
         NodeInts(1).Gres + NodeInts(2).Gres>>
  /\ call.ret.real = <<NodeInts(2).CPUTot, NodeInts(2).Gres>>

\* the rows of a described job listing that have at least 17 fields, in the
\* order of the listing
KeptRows(src) == SelectSeq(src, LAMBDA row : Len(row) >= 17)

\* C16: get_job_stats returns one record per row of at least 17 fields that
\* follows the header, in the order of the listing; the header, the blank
\* lines and the shorter rows give none and remove no other row.
C16_RowsInOrder ==
  Returned("get_job_stats") =>
    /\ Len(call.ret) = Len(KeptRows(call.src))
    /\ \A i \in 1..Len(call.ret) :
         /\ call.ret[i].id = KeptRows(call.src)[i][1]
         /\ call.ret[i].user = KeptRows(call.src)[i][2]
         /\ call.ret[i].name = KeptRows(call.src)[i][10]

\* C16: a listing of job 1, a short row and job 3 gave the records of job 1
\* and job 3, in this order.
C16_Witness ==
  /\ Returned("get_job_stats")
  /\ Len(call.src) = 3
  /\ call.src[1] = JobFields(1)
  /\ Len(call.src[2]) = 16
  /\ call.src[3] = JobFields(3)
  /\ Len(call.ret) = 2
  /\ call.ret[1].id = "451951"
  /\ call.ret[2].id = "451953"

\* the first digit of the number of an explicit total token of the gres
\* field g: "gpu_total=", "total_gpu=" or "gres/gpu=" and digits; 0 when g
\* holds none
ExplicitTotal(g) ==
  FirstOr({Find(g, lit, 1) + Len(lit) :
             lit \in {l \in {"gpu_total=", "total_gpu=", "gres/gpu="} :
                        /\ Contains(g, l)
                        /\ Find(g, l, 1) + Len(l) <= Len(g)
                        /\ IsDigit(Ch(g, Find(g, l, 1) + Len(l)))}}, 0)

\* the first digit after the first "gpu" of g, 0 when there is none
PerNodeDigits(g) ==
  IF Contains(g, "gpu") THEN FirstDigit(g, Find(g, "gpu", 1) + 3) ELSE 0

\* the GPU count of the three tiers for the node count n and the gres field
\* g; a node count that is no number gives the dash
ThreeTiers(n, g) ==
  IF ExplicitTotal(g) # 0 THEN GroupAt(g, ExplicitTotal(g))
  ELSE IF PerNodeDigits(g) # 0 /\ AllDigits(n)
       THEN NatStr(NatOf(n) * DigitsAt(g, PerNodeDigits(g)))
  ELSE "-"

\* C17 as the claim states it: the GPU count of a row is the number of its
\* explicit total token when the gres field holds one, otherwise the node
\* count times the digits that follow "gpu", otherwise "-".
C17_GpuCountTiers ==
  Returned("get_job_stats") =>
    \A i \in 1..Len(call.ret) :
      call.ret[i].gpu =
        ThreeTiers(KeptRows(call.src)[i][7], KeptRows(call.src)[i][9])

\* the derivation of the GPU count of a row fails: its gres field holds
\* "gpu" without a total, and its node count is no number
DerivationFails(row) ==
  /\ Contains(row[9], "gpu")
  /\ TotalMatch(row[9]) = 0
  /\ ~AllDigits(row[7])

\* the fields of a record other than gpu and dep are those of the row
FieldsMapped(job, row) ==
  /\ <<job.id, job.user, job.state, job.time, job.left, job.prio, job.nodes,
       job.reason>> = SubSeq(row, 1, 8)
  /\ <<job.name, job.cpu, job.mem, job.part, job.account, job.qos,
       job.submit>> = SubSeq(row, 10, 16)

\* C18: a row whose GPU count cannot be derived, because its node count is
\* no number, still gives its record, with gpu = "-" and every other
\* field mapped from the row, and the rows around it give their records.
C18_DerivationFailureKeepsRow ==
  Returned("get_job_stats") =>
    /\ Len(call.ret) = Len(KeptRows(call.src))
    /\ \A i \in 1..Len(call.ret) :
         /\ FieldsMapped(call.ret[i], KeptRows(call.src)[i])
         /\ DerivationFails(KeptRows(call.src)[i]) => call.ret[i].gpu = "-"

\* C18: a row with the node count N/A and the gres field gpu:4, followed by
\* the row of job 2, gave two records, the first with gpu = "-".
C18_Witness ==
  /\ Returned("get_job_stats")
  /\ call.src = <<[JobFields(1) EXCEPT ![7] = "N/A"], JobFields(2)>>
  /\ Len(call.ret) = 2
  /\ call.ret[1].gpu = "-"
  /\ call.ret[1].nodes = "N/A"
  /\ call.ret[2].id = "451952"
  /\ call.ret[2].gpu = "32"

\* C19: in every record of get_job_stats dep is the empty string exactly
\* when the 17th field of its row is "(null)" or "N/A", and is that field
\* unchanged otherwise.
C19_DependencySentinels ==
  Returned("get_job_stats") =>
    \A i \in 1..Len(call.ret) :
      /\ call.ret[i].dep = ""
           <=> KeptRows(call.src)[i][17] \in {"(null)", "N/A"}
      /\ KeptRows(call.src)[i][17] \notin {"(null)", "N/A"} =>
           call.ret[i].dep = KeptRows(call.src)[i][17]

\* C19: a row whose 17th field is N/A gave a record with an empty dep.
C19_Witness ==
  /\ Returned("get_job_stats")
  /\ call.src = <<[JobFields(1) EXCEPT ![17] = "N/A"]>>
  /\ Len(call.ret) = 1
  /\ call.ret[1].dep = ""

\* C20: when the user applies the filter dialog with both inputs empty or
\* holding only whitespace, the filtered jobs are the jobs of the snapshot,
\* in the same order, and the visible count equals the total count.
C20_EmptyFilterIsIdentity ==
  (/\ Returned("_filter_jobs")
   /\ IsBlank(call.src.user_input)
   /\ IsBlank(call.src.prefix_input)) =>
    /\ call.ret.view.jobs = call.ret.all_jobs
    /\ call.ret.view.visible_jobs = Len(call.ret.all_jobs)
    /\ call.ret.view.total_jobs = Len(call.ret.all_jobs)

\* C20: the dialog was applied with spaces in both inputs on a snapshot of
\* MaxJobs jobs, and all of them are visible.
C20_Witness ==
  /\ Returned("_filter_jobs")
  /\ call.src.user_input = "  "
  /\ call.src.prefix_input = " "
  /\ Len(call.ret.all_jobs) = MaxJobs
  /\ call.ret.view.jobs = call.ret.all_jobs
  /\ call.ret.view.visible_jobs = MaxJobs

RECURSIVE Pick(_, _)
\* the elements of seq at the indices S, in the order of seq
Pick(seq, S) ==
  IF S = {} THEN <<>>
  ELSE Pick(seq, S \ {Last(S)}) \o <<seq[Last(S)]>>

\* C21: with criteria that are not both empty, the filtered jobs are the
\* jobs of the snapshot whose user equals the user criterion and whose name
\* starts with the prefix criterion, each compared casefolded and only when
\* the criterion is not empty, in the order of the snapshot; the visible
\* count is their number and is at most the total count.
C21_FilterIsStableSubsequence ==
  (/\ Returned("_filter_jobs")
   /\ ~(IsBlank(call.src.user_input) /\ IsBlank(call.src.prefix_input))) =>
    /\ call.ret.view.jobs =
         Pick(call.ret.all_jobs,
              MatchingJobs(call.ret.all_jobs, Strip(call.src.user_input),
                           Strip(call.src.prefix_input)))
    /\ call.ret.view.visible_jobs = Len(call.ret.view.jobs)
    /\ call.ret.view.total_jobs = Len(call.ret.all_jobs)
    /\ call.ret.view.visible_jobs <= call.ret.view.total_jobs

\* C21: the user criterion AL on the jobs of al, bo and al kept the first
\* and the third job, in this order.
C21_Witness ==
  /\ Returned("_filter_jobs")
  /\ call.src.user_input = " AL"
  /\ call.src.prefix_input = " "
  /\ Len(call.ret.all_jobs) = 3
  /\ call.ret.all_jobs[2].user = "bo"
  /\ call.ret.view.jobs = <<call.ret.all_jobs[1], call.ret.all_jobs[3]>>

\* the blob get_job_details holds for a call of the detail screen
BlobOf(src) ==
  IF src.status = "raise" THEN "Error fetching job details."
  ELSE JoinWith(src.tokens, src.sep)

\* the number of "|" in a text
Pipes(text) == Cardinality({i \in 1..Len(text) : Ch(text, i) = "|"})

\* C22: the usage sample is fetched only after the fetched blob contains
\* JobState=RUNNING, and after the blob; for a blob without it the sstat
\* field is empty and no usage section is shown; a usage section is shown
\* only for such a blob, and a shown usage text with fewer than three
\* "|"-separated fields has no metrics, the screen is still composed.
C22_UsageOnlyForRunningJobs ==
  Returned("JobDetailScreen") =>
    /\ call.ret.data.raw = BlobOf(call.src)
    /\ call.ret.data.issued[1] = "scontrol show job"
    /\ (\E i \in 1..Len(call.ret.data.issued) :
          call.ret.data.issued[i] = "sstat -j") =>
         /\ Contains(BlobOf(call.src), "JobState=RUNNING")
         /\ call.ret.data.issued = <<"scontrol show job", "sstat -j">>
    /\ ~Contains(BlobOf(call.src), "JobState=RUNNING") =>
         /\ call.ret.data.sstat = ""
         /\ ~call.ret.screen.usage.shown
         /\ call.ret.screen.usage.metrics = <<>>
    /\ call.ret.screen.usage.shown =>
         Contains(BlobOf(call.src), "JobState=RUNNING")
    /\ Pipes(call.ret.data.sstat) < 2 =>
         call.ret.screen.usage.metrics = <<>>

\* C22: a running job whose usage text has two fields: the sample was
\* fetched, the section is shown without metrics.
C22_Witness ==
  /\ Returned("JobDetailScreen")
  /\ Contains(call.ret.data.raw, "JobState=RUNNING")
  /\ call.ret.data.sstat = "00:12:01|1024K"
  /\ call.ret.screen.usage.shown
  /\ call.ret.screen.usage.metrics = <<>>

\* the tokens of the blob of a call of the detail screen
TokensOf(src) ==
  IF src.status = "raise" THEN <<"Error", "fetching", "job", "details.">>
  ELSE src.tokens

\* the places of the tokens that are key=value with this key, = being the
\* first "=" of the token
Occurrences(tokens, key) ==
  {j \in 1..Len(tokens) :
     /\ Find(tokens[j], "=", 1) # 0
     /\ SubSeq(tokens[j], 1, Find(tokens[j], "=", 1) - 1) = key}

\* the text after the first "=" of a token
AfterFirstEquals(token) ==
  SubSeq(token, Find(token, "=", 1) + 1, Len(token))

\* C23: the detail map has a key exactly when the key is one of the 19
\* listed field names and a token key=value with this key is in the blob;
\* its value is the text after the first "=" of the last such token; the
\* other tokens leave no trace and the screen is composed.
C23_DetailMapOfAllowedTokens ==
  Returned("JobDetailScreen") =>
    /\ Len(interesting_keys) = 19
    /\ \A i \in 1..Len(call.ret.screen.grid) :
         /\ \E n \in 1..19 : interesting_keys[n] = call.ret.screen.grid[i].k
         /\ \A j \in 1..Len(call.ret.screen.grid) :
              call.ret.screen.grid[j].k = call.ret.screen.grid[i].k => j = i
         /\ Occurrences(TokensOf(call.src), call.ret.screen.grid[i].k) # {}
         /\ call.ret.screen.grid[i].v =
              AfterFirstEquals(
                TokensOf(call.src)[
                  Last(Occurrences(TokensOf(call.src),
                                   call.ret.screen.grid[i].k))])
    /\ \A n \in 1..19 :
         Occurrences(TokensOf(call.src), interesting_keys[n]) # {} =>
           \E i \in 1..Len(call.ret.screen.grid) :
             call.ret.screen.grid[i].k = interesting_keys[n]

\* C23: the blob JobState=RUNNING JobState=PENDING gave the one entry
\* JobState: PENDING.
C23_Witness ==
  /\ Returned("JobDetailScreen")
  /\ call.src.status = "ok"
  /\ call.src.tokens = <<"JobState=RUNNING", "JobState=PENDING">>
  /\ call.ret.screen.grid = <<[k |-> "JobState", v |-> "PENDING"]>>

\* C23: the value keeps the later "=", the unknown key is dropped.
C23_WitnessValueWithEquals ==
  /\ Returned("JobDetailScreen")
  /\ call.src.status = "ok"
  /\ call.src.tokens = <<"Priority=4680", "Command=run.sh?lr=0.1">>
  /\ call.ret.screen.grid = <<[k |-> "Command", v |-> "run.sh?lr=0.1"]>>

\* C24: after a confirmed kill the cancel command has been run once, and
\* when it failed (the scheduler refused it, or the command could not be
\* run) the handler has shown an error notification.
C24_CancelFailureNotified ==
  [][last'.op = "kill_confirm" =>
       /\ Len(last'.scancel) = 1
       /\ last'.scancel[1].status # "ok" => notice' = "Error: scancel"]_vars

\* the step is a run of the handler op
Ran(op) == last'.op = op

\* the last two steps were runs of the toggle op
RanTwice(op) == last.op = op /\ Len(last.modes) = 2

\* C25: the nodes-only toggle goes from nodes to split and from split or
\* jobs to nodes; the jobs-only toggle goes from jobs to split and from
\* split or nodes to jobs; two runs in a row of a toggle that started in
\* split or in the toggle's own mode end in the starting mode, and end in
\* split when they started in the other single-pane mode.
C25_ToggleTransitions ==
  /\ [][/\ Ran("action_toggle_nodes_only") =>
             <<pane_mode, pane_mode'>> \in
               {<<"nodes", "split">>, <<"split", "nodes">>,
                <<"jobs", "nodes">>}
        /\ Ran("action_toggle_jobs_only") =>
             <<pane_mode, pane_mode'>> \in
               {<<"jobs", "split">>, <<"split", "jobs">>,
                <<"nodes", "jobs">>}]_vars
  /\ [](RanTwice("action_toggle_nodes_only") =>
          pane_mode = IF last.modes[1] = "jobs" THEN "split"
                      ELSE last.modes[1])
  /\ [](RanTwice("action_toggle_jobs_only") =>
          pane_mode = IF last.modes[1] = "nodes" THEN "split"
                      ELSE last.modes[1])

\* C25: the nodes-only toggle ran twice in a row from the split mode and
\* the mode is split again.
C25_Witness ==
  /\ RanTwice("action_toggle_nodes_only")
  /\ last.modes = <<"split", "nodes">>
  /\ pane_mode = "split"

\* C25 as stated: each toggle moves between its single-pane mode and split
\* only, and two runs in a row end in the starting mode, whatever it was.
C25_TogglesOnlyToAndFromSplit ==
  /\ [][/\ Ran("action_toggle_nodes_only") =>
             <<pane_mode, pane_mode'>> \in
               {<<"nodes", "split">>, <<"split", "nodes">>}
        /\ Ran("action_toggle_jobs_only") =>
             <<pane_mode, pane_mode'>> \in
               {<<"jobs", "split">>, <<"split", "jobs">>}]_vars
  /\ [](RanTwice("action_toggle_nodes_only") => pane_mode = last.modes[1])
  /\ [](RanTwice("action_toggle_jobs_only") => pane_mode = last.modes[1])

\* the application is mounted and running
Running == app_state \in {"mounted", "running"}

\* C26: once mounted, node_pane_width is at least MIN_NODE_PANE_WIDTH in
\* every state, and in split mode it is at most the larger of
\* MIN_NODE_PANE_WIDTH and terminal width - 40.
C26_WidthWithinLayoutRange ==
  Running =>
    /\ node_pane_width >= MIN_NODE_PANE_WIDTH
    /\ pane_mode = "split" =>
         node_pane_width <=
           IF term_width - 40 >= MIN_NODE_PANE_WIDTH THEN term_width - 40
           ELSE MIN_NODE_PANE_WIDTH

\* C26: on a terminal of 60 columns the widen key was pressed in split
\* mode; the width is the minimum, above 60 - 40.
C26_Witness ==
  /\ Running
  /\ last.op = "action_widen_nodes_pane"
  /\ pane_mode = "split"
  /\ term_width = 60
  /\ node_pane_width = MIN_NODE_PANE_WIDTH

\* C26 as stated: the width is between the minimum and terminal width - 40
\* in every state.
C26_WidthWithinTerminalRange ==
  Running =>
    /\ node_pane_width >= MIN_NODE_PANE_WIDTH
    /\ node_pane_width <= term_width - 40

\* C26: a single-pane mode keeps the width it was entered with after the
\* terminal has shrunk: 50 columns of a terminal of 60.
C26_WitnessStaleWidth ==
  /\ Running
  /\ last.op = "on_resize"
  /\ pane_mode = "nodes"
  /\ term_width = 60
  /\ node_pane_width = 50

\* C27: a run of the narrow or of the widen handler outside split mode
\* leaves pane_mode, node_pane_width, the display of both panes and the
\* focus as they were.
C27_WidthKeysIdleOutsideSplit ==
  [][((Ran("action_narrow_nodes_pane") \/ Ran("action_widen_nodes_pane"))
      /\ pane_mode # "split") =>
       /\ pane_mode' = pane_mode
       /\ node_pane_width' = node_pane_width
       /\ node_pane_display' = node_pane_display
       /\ job_pane_display' = job_pane_display
       /\ focused' = focused]_vars

\* C27: the widen key was pressed in jobs-only mode, below the largest
\* width the terminal allows.
C27_Witness ==
  /\ last.op = "action_widen_nodes_pane"
  /\ pane_mode = "jobs"
  /\ term_width = 90
  /\ node_pane_width = 42
  /\ ~node_pane_display

\* C28: a run of the reset handler ends in split mode with the width 42
\* when terminal width - 40 is at least 42, terminal width - 40 when that is
\* between the minimum and 42, and the minimum otherwise; a run that follows
\* a run of the reset handler changes nothing of the layout.
C28_ResetToDefaultLayout ==
  [][Ran("action_reset_panes") =>
       /\ pane_mode' = "split"
       /\ node_pane_width' =
            IF term_width - 40 >= 42 THEN 42
            ELSE IF term_width - 40 >= MIN_NODE_PANE_WIDTH
            THEN term_width - 40
            ELSE MIN_NODE_PANE_WIDTH
       /\ node_pane_display' /\ job_pane_display'
       /\ last.op = "action_reset_panes" =>
            /\ pane_mode' = pane_mode
            /\ node_pane_width' = node_pane_width
            /\ node_pane_display' = node_pane_display
            /\ job_pane_display' = job_pane_display
            /\ focused' = focused]_vars

\* C28: the reset key was pressed on a terminal of 90 columns: split mode,
\* width 42.
C28_Witness ==
  /\ last.op = "action_reset_panes"
  /\ term_width = 90
  /\ pane_mode = "split"
  /\ node_pane_width = 42

\* C29: a resize in split mode keeps the mode and makes the width
\* max(MIN, min(old width, max(MIN, new terminal width - 40))); a resize in
\* nodes-only or jobs-only mode changes neither the mode nor the width.
C29_ResizeReclampsInSplit ==
  [][Ran("on_resize") =>
       /\ pane_mode' = pane_mode
       /\ pane_mode = "split" =>
            node_pane_width' =
              Max(MIN_NODE_PANE_WIDTH,
                  Min(node_pane_width,
                      Max(MIN_NODE_PANE_WIDTH, term_width' - 40)))
       /\ pane_mode # "split" => node_pane_width' = node_pane_width]_vars

\* C29: the terminal shrank to 60 columns in split mode and the width is
\* the minimum.
C29_Witness ==
  /\ last.op = "on_resize"
  /\ pane_mode = "split"
  /\ term_width = 60
  /\ node_pane_width = MIN_NODE_PANE_WIDTH

\* the handlers that set key_mode
KeyModeHandlers == {"action_toggle_mode", "set_key_mode_normal"}

\* C30: the key m flips key_mode from normal and from edit; escape in edit
\* mode gives normal; escape in normal mode reaches no handler; no other
\* key reaches a handler that sets key_mode, and no step other than these
\* handlers, the refresh included, changes key_mode.
C30_KeyModeMachine ==
  /\ [][/\ Ran("action_toggle_mode") =>
             key_mode' = IF key_mode = "normal" THEN "toggle" ELSE "normal"
        /\ Ran("set_key_mode_normal") =>
             key_mode = "toggle" /\ key_mode' = "normal"
        /\ key_mode' # key_mode =>
             \E op \in KeyModeHandlers : Ran(op)]_vars
  /\ [](\A foc \in {"job_table", "node_table"} :
          /\ Route("m", "normal", foc) = "action_toggle_mode"
          /\ Route("m", "toggle", foc) = "set_key_mode_normal"
          /\ Route("escape", "toggle", foc) = "set_key_mode_normal"
          /\ Route("escape", "normal", foc) = "none"
          /\ \A key \in Keys \ {"m", "escape"} :
               \A mode \in {"normal", "toggle"} :
                 Route(key, mode, foc) \notin KeyModeHandlers)

\* C30: escape or m was pressed in edit mode and the mode is normal.
C30_Witness ==
  /\ last.op = "set_key_mode_normal"
  /\ key_mode = "normal"

\* the handlers of the navigation and action commands of normal mode; the
\* cursor and scroll keys of on_key leave "on_key" in last
NormalCommands ==
  {"on_key", "action_kill_job", "action_copy_job_id",
   "action_toggle_compact"}

\* the handlers of the layout commands
LayoutCommands ==
  {"action_narrow_nodes_pane", "action_widen_nodes_pane",
   "action_toggle_nodes_only", "action_toggle_jobs_only",
   "action_reset_panes"}

\* C31: while key_mode is edit no step runs a navigation or action command
\* of normal mode (cursor move, wrapper scroll, kill job, copy id, compact
\* toggle), and while key_mode is normal no step runs a layout command.
C31_EditModeRunsLayoutOnly ==
  [][/\ key_mode = "toggle" => last'.op \notin NormalCommands
     /\ key_mode = "normal" => last'.op \notin LayoutCommands]_vars

\* C31, the part on the letter keys: in edit mode no key reaches a cursor
\* or scroll handler, and in normal mode h, l, j, k, n, v reach no layout
\* handler.
C31_LetterKeysFollowTheMode ==
  \A foc \in {"job_table", "node_table"} :
    /\ \A key \in Keys :
         Route(key, "toggle", foc) \notin
           {"job_cursor_down", "job_cursor_up", "node_cursor_down",
            "node_cursor_up", "wrapper_scroll_left", "wrapper_scroll_right"}
    /\ \A key \in {"h", "l", "j", "k", "n", "v"} :
         Route(key, "normal", foc) \notin LayoutCommands

\* C32: the help key and the pane-focus keys reach the same handler in
\* normal and in edit mode; a run of one of these handlers has an effect on
\* pane_mode, focus and the screen stack that is a function of the layout
\* and the screen stack before it, and leaves key_mode as it was.
C32_GlobalShortcutsIgnoreKeyMode ==
  /\ [][/\ Ran("action_focus_nodes_pane") =>
             /\ pane_mode' = IF pane_mode = "jobs" THEN "split" ELSE pane_mode
             /\ focused' = "node_table"
             /\ screens' = screens
        /\ Ran("action_focus_jobs_pane") =>
             /\ pane_mode' = IF pane_mode = "nodes" THEN "split" ELSE pane_mode
             /\ focused' = "job_table"
             /\ screens' = screens
        /\ Ran("action_show_help") =>
             /\ pane_mode' = pane_mode
             /\ focused' = focused
             /\ Len(screens') = 1
             /\ screens'[1].kind = "help"
        /\ (\E op \in {"action_focus_nodes_pane", "action_focus_jobs_pane",
                       "action_show_help", "help_dismiss"} : Ran(op)) =>
             key_mode' = key_mode]_vars
  /\ [](\A foc \in {"job_table", "node_table"} :
          \A mode \in {"normal", "toggle"} :
            /\ Route("question_mark", mode, foc) = "action_show_help"
            /\ Route("shift+left", mode, foc) = "action_focus_nodes_pane"
            /\ Route("H", mode, foc) = "action_focus_nodes_pane"
            /\ Route("shift+right", mode, foc) = "action_focus_jobs_pane"
            /\ Route("L", mode, foc) = "action_focus_jobs_pane")

\* C32: in edit mode and jobs-only layout the focus-nodes key was pressed;
\* the layout is split, the node table has the focus, the mode is edit.
C32_Witness ==
  /\ last.op = "action_focus_nodes_pane"
  /\ key_mode = "toggle"
  /\ pane_mode = "split"
  /\ focused = "node_table"
  /\ screens = <<>>

\* C32: the manual was opened in edit mode.
C32_WitnessHelpInEditMode ==
  /\ last.op = "action_show_help"
  /\ key_mode = "toggle"
  /\ screens # <<>>

\* the places <<p, e>> of a text where gres/gpu starts at p, e is the first
\* "=" after it and a digit follows e
GpuEntries(text) ==
  {pe \in (1..Len(text)) \X (1..Len(text)) :
     /\ StartsAt(text, pe[1], "gres/gpu")
     /\ pe[2] >= pe[1] + 8
     /\ Ch(text, pe[2]) = "="
     /\ \A k \in (pe[1] + 8)..(pe[2] - 1) : Ch(text, k) # "="
     /\ pe[2] < Len(text)
     /\ IsDigit(Ch(text, pe[2] + 1))}

\* the digits after the "=" of the leftmost such place, as a number; 0
\* without one
GpuOfEntries(text) ==
  IF GpuEntries(text) = {} THEN 0
  ELSE LET pe == CHOOSE m \in GpuEntries(text) :
                   \A o \in GpuEntries(text) : m[1] <= o[1]
           d == CHOOSE j \in (pe[2] + 1)..Len(text) :
                  /\ \A k \in (pe[2] + 1)..j : IsDigit(Ch(text, k))
                  /\ j = Len(text) \/ ~IsDigit(Ch(text, j + 1))
       IN  NatOf(SubSeq(text, pe[2] + 1, d))

\* the AllocTRES value of a described line, "" when the key is missing
AllocTresOf(d) ==
  IF \E i \in 1..Len(d.keys) : d.keys[i] = "AllocTRES"
  THEN d.val.AllocTRES ELSE ""

\* C33: g_u of a node is the number after the "=" of the leftmost
\* gres/gpu<no "=">=<digits> in the AllocTRES value, the value being all
\* that follows the first "=" of the AllocTRES token; it is 0 when the key
\* is missing or the value has no such entry.
C33_GpuAllocatedOfAllocTres ==
  (/\ Returned("get_cluster_stats")
   /\ Len(call.src) = 1
   /\ call.src[1] \in AllocTresLines \cup MissingKeyLines) =>
    /\ ~call.ret.raised
    /\ Len(call.ret.nodes) = 1
    /\ call.ret.nodes[1].g_u = GpuOfEntries(AllocTresOf(call.src[1]))
    /\ ~Contains(AllocTresOf(call.src[1]), "gres/gpu") =>
         call.ret.nodes[1].g_u = 0

\* C33: AllocTRES=cpu=4,mem=8000M,gres/gpu:a100=3 gave g_u = 3.
C33_Witness ==
  /\ Returned("get_cluster_stats")
  /\ Len(call.src) = 1
  /\ call.src[1] \in AllocTresLines
  /\ call.src[1].val.AllocTRES = "cpu=4,mem=8000M,gres/gpu:a100=3"
  /\ call.ret.nodes[1].g_u = 3

\* C34: the kill dialog is opened for the id of the row under the cursor of
\* the job table; while it is open no step other than its two buttons
\* changes it, a refresh included; the confirm button runs scancel once, for
\* the id of the dialog.
C34_CancelledJobIsTheSelectedOne ==
  [][/\ KillDialogOpens =>
          /\ job_table.cursor.row \in 0..(row_count(job_table) - 1)
          /\ screens' =
               <<[kind |-> "kill",
                  job_id |-> job_table.rows[job_table.cursor.row + 1][1],
                  job_user |->
                    job_table.rows[job_table.cursor.row + 1][
                      IF show_compact THEN 2 ELSE 3]]>>
     /\ (KillOnTop /\ last'.op \notin {"kill_confirm", "kill_cancel"}) =>
          screens' = screens
     /\ (KillOnTop /\ last'.op = "kill_confirm") =>
          /\ Len(last'.scancel) = 1
          /\ last'.scancel[1].job_id = screens[1].job_id]_vars

\* C34: the dialog was opened on job 102 in the second row; a refresh with
\* an empty listing and one with the full listing moved the cursor to the
\* first row, job 101; the confirmation cancelled job 102.
C34_Witness ==
  /\ last.op = "kill_confirm"
  /\ Len(last.scancel) = 1
  /\ last.scancel[1].job_id = "102"
  /\ job_filter_user = "" /\ job_filter_prefix = ""
  /\ job_table.cursor.row = 0
  /\ row_count(job_table) = MaxJobs
  /\ job_table.rows[1][1] = "101"

\* C35: after a run of the compact toggle the cursor row of the job table
\* is the row before the toggle, lowered to the last row of the new table
\* when that is smaller (0 for an empty table).
C35_CompactToggleKeepsCursorRow ==
  [][(Ran("action_toggle_compact") /\ app_state' = "running") =>
       job_table'.cursor.row =
         IF job_table.cursor.row < row_count(job_table')
         THEN job_table.cursor.row
         ELSE IF row_count(job_table') = 0 THEN 0
         ELSE row_count(job_table') - 1]_vars

\* the row a cursor on row old is on after a refresh that leaves count rows
RowAfterRefresh(old, count) ==
  IF count = 0 THEN 0
  ELSE IF old < count THEN old
  ELSE count - 1

\* C36: a timer refresh that completes leaves the cursor of each table on
\* the row it was on, or on the last row of the new table when that is
\* lower (row 0 for an empty table): the row index never grows by a
\* refresh, so a cursor lowered by a shrunken listing stays where it is when
\* the listing grows again.
C36_RefreshNeverRaisesCursor ==
  [][(Ran("tick") /\ app_state' = "running") =>
       /\ job_table'.cursor.row =
            RowAfterRefresh(job_table.cursor.row, row_count(job_table'))
       /\ node_table'.cursor.row =
            RowAfterRefresh(node_table.cursor.row, row_count(node_table'))
       /\ job_table'.cursor.row <= job_table.cursor.row
       /\ node_table'.cursor.row <= node_table.cursor.row]_vars

\* C36: a refresh found the cursor of the job table on the third row, the
\* listing had shrunk and the cursor is on a lower row, the last one.
C36_Witness ==
  /\ last.op = "tick"
  /\ app_state = "running"
  /\ last.locals # <<>>
  /\ last.locals[1].j_cursor.row = 2
  /\ job_table.cursor.row < 2
  /\ job_table.cursor.row = row_count(job_table) - 1

\* C36: a refresh found the cursor on the first row of a table that now has
\* all its rows again: the cursor stays on the first row.
C36_WitnessRegrown ==
  /\ last.op = "tick"
  /\ app_state = "running"
  /\ last.locals # <<>>
  /\ last.locals[1].j_cursor.row = 0
  /\ job_table.cursor.row = 0
  /\ row_count(job_table) = MaxJobs
  /\ focused = "job_table"

\* C37: once mounted, the table that has the focus is in a pane that is
\* displayed: the node table has it only outside jobs-only mode, the job
\* table only outside nodes-only mode; focus-nodes pressed in jobs-only mode
\* and focus-jobs pressed in nodes-only mode end in split mode.
C37_FocusedTableIsDisplayed ==
  /\ [](Running =>
          /\ focused \in {"node_table", "job_table"}
          /\ focused = "node_table" =>
               pane_mode # "jobs" /\ node_pane_display
          /\ focused = "job_table" =>
               pane_mode # "nodes" /\ job_pane_display)
  /\ [][/\ (Ran("action_focus_nodes_pane") /\ pane_mode = "jobs") =>
             pane_mode' = "split" /\ focused' = "node_table"
        /\ (Ran("action_focus_jobs_pane") /\ pane_mode = "nodes") =>
             pane_mode' = "split" /\ focused' = "job_table"]_vars

\* C37: the nodes-only toggle was pressed in jobs-only mode, where the job
\* table had the focus; the node table has it now.
C37_Witness ==
  /\ Running
  /\ last.op = "action_toggle_nodes_only"
  /\ last.modes[Len(last.modes)] = "jobs"
  /\ pane_mode = "nodes"
  /\ focused = "node_table"
  /\ ~job_pane_display

\* the criteria as the indicator writes them
CriteriaText(user, prefix) ==
  (IF user # "" THEN "U=" \o user ELSE "")
  \o (IF user # "" /\ prefix # "" THEN " " ELSE "")
  \o (IF prefix # "" THEN "N^=" \o prefix ELSE "")

\* the indicator for criteria, visible jobs and total jobs
Indicator(user, prefix, visible, total) ==
  IF user = "" /\ prefix = "" THEN " FILTER: OFF "
  ELSE " " \o CriteriaText(user, prefix)
       \o " (" \o NatStr(visible) \o "/" \o NatStr(total) \o ") "

\* C38: once mounted, the indicator reads FILTER: OFF exactly when both
\* criteria are empty; after every refresh it is the criteria followed by
\* (visible/total), total being the number of jobs of the snapshot of that
\* refresh and visible the number of them that pass the criteria, visible
\* between 0 and total; only a step that refreshes changes the indicator;
\* the cancel of the filter dialog leaves criteria and indicator and does
\* not refresh.
C38_FilterIndicatorConsistent ==
  /\ [](Running =>
          (filter_pill = " FILTER: OFF "
             <=> (job_filter_user = "" /\ job_filter_prefix = "")))
  /\ []((Running /\ Refreshed) =>
          /\ filter_pill =
               Indicator(job_filter_user, job_filter_prefix,
                         Cardinality(MatchingJobs(
                           get_job_stats(fetched.jobs), job_filter_user,
                           job_filter_prefix)),
                         Len(get_job_stats(fetched.jobs)))
          /\ Cardinality(MatchingJobs(get_job_stats(fetched.jobs),
                                      job_filter_user, job_filter_prefix))
               <= Len(get_job_stats(fetched.jobs)))
  /\ [][/\ filter_pill' # filter_pill => last'.refreshes = 1
        /\ Ran("filter_cancel") =>
             /\ UNCHANGED <<job_filter_user, job_filter_prefix, filter_pill>>
             /\ last'.refreshes = 0]_vars

\* C38: a timer refresh under the criteria AL and Tr: one of the three jobs
\* of the snapshot passes.
C38_Witness ==
  /\ Running
  /\ Refreshed
  /\ last.op = "tick"
  /\ job_filter_user = "AL"
  /\ job_filter_prefix = "Tr"
  /\ filter_pill = " U=AL N^=Tr (1/3) "

\* C38: the filter dialog was cancelled while criteria were active.
C38_WitnessCancel ==
  /\ Running
  /\ last.op = "filter_cancel"
  /\ job_filter_user = "AL"
  /\ filter_pill # " FILTER: OFF "

\* the bars of a completed call of update_bars
BarsDrawn == call.fn = "update_bars" /\ call.done

\* C39: each bar of a snapshot shows 0 percent when its total is 0 and
\* otherwise the integer part of 100 * used / total, and its task total is
\* max(total, used), so that completed never exceeds the task total.
C39_BarPercentIsIntegerPart ==
  BarsDrawn =>
    \A i \in 1..Len(call.ret.bars) :
      LET bar == call.ret.bars[i]
      IN /\ bar.pct = IF bar.total = 0 THEN 0
                      ELSE (100 * bar.used) \div bar.total
         /\ bar.task_total = Max(bar.total, bar.used)
         /\ bar.completed <= bar.task_total

\* C39: what holds of every bar: the four bars are those of the totals of
\* the snapshot; the percentage is 0 when the total is 0 and otherwise the
\* integer part of 100 * used / total or one below it; the task total is
\* max(total, used) and completed is used.
C39_BarsNeverDivideByZero ==
  BarsDrawn =>
    /\ <<call.ret.bars[1].used, call.ret.bars[1].total,
         call.ret.bars[3].used, call.ret.bars[3].total>> = call.ret.theo
    /\ <<call.ret.bars[2].total, call.ret.bars[4].total>> = call.ret.real
    /\ call.ret.bars[2].used = call.ret.theo[1]
    /\ call.ret.bars[4].used = call.ret.theo[3]
    /\ \A i \in 1..Len(call.ret.bars) :
         LET bar == call.ret.bars[i]
         IN /\ bar.total = 0 => bar.pct = 0
            /\ bar.total > 0 =>
                 bar.pct \in {(100 * bar.used) \div bar.total,
                              (100 * bar.used) \div bar.total - 1}
            /\ bar.task_total = Max(bar.total, bar.used)
            /\ bar.completed = bar.used
            /\ bar.completed <= bar.task_total

\* C39: the only node is offline and has CPUs in use: the bar of the active
\* CPUs has total 0 and a task longer than its total.
C39_WitnessOffline ==
  /\ BarsDrawn
  /\ call.ret.bars[2].used > 0
  /\ call.ret.bars[2].total = 0
  /\ call.ret.bars[2].pct = 0
  /\ call.ret.bars[2].task_total = call.ret.bars[2].used

\* C39: the empty snapshot: four bars of 0/0.
C39_WitnessEmpty ==
  /\ BarsDrawn
  /\ call.src = <<>>
  /\ \A i \in 1..4 : call.ret.bars[i].total = 0 /\ call.ret.bars[i].pct = 0

\* C39: 29 of 50 CPUs in use are shown as 57 percent.
C39_WitnessRoundedDown ==
  /\ BarsDrawn
  /\ call.ret.bars[1].used = 29
  /\ call.ret.bars[1].total = 50
  /\ call.ret.bars[1].pct = 57

====
